---------------------------- MODULE Spec2Model ----------------------------
(***************************************************************************)
(* A model of the Duke Script loader of RigelEngine                        *)
(* (src/src/loader/duke_script_loader.cpp).                                *)
(*                                                                         *)
(* The script source is a sequence of SYMBOLS.  A symbol is a string: one  *)
(* blank character (" ", "\t", "\n", "\r"), one slash "/", one decimal     *)
(* digit, one sign, one markup byte ("<EF>", "<F0>", ...: a single byte    *)
(* >= 0xEF, written by name), or a run of one or more other printable      *)
(* bytes ("END", "Hi").  Stream positions count symbols, starting at 1;    *)
(* position Len+1 is the end of the buffer.                                *)
(*                                                                         *)
(* A std::istream is a record [pos, eof, fail] over its buffer: the read   *)
(* position, eofbit and failbit.  The program is built as C++14 or later   *)
(* (it uses generic lambdas), so seekg clears eofbit before it seeks.      *)
(***************************************************************************)
EXTENDS Integers, Sequences, FiniteSets, TLC

VARIABLES
  lines,          \* the script source as the list of its lines
  scriptSource,   \* loadScripts' argument: the symbols of the source
  sourceStream,   \* the istringstream over scriptSource
  pc,             \* the function whose loop runs next, or how the call ended
  bundle,         \* loadScripts' result under construction
  scriptName,     \* the name of the script being parsed
  script,         \* parseScript's accumulator
  pages,          \* parsePagesDefinition's accumulator
  box,            \* y, width and height of the CENTERWINDOW being parsed
  messageLines,   \* parseMessageBoxTextDefinition's accumulator
  startOfLine,    \* parseMessageBoxTextDefinition's remembered position
  returned,       \* <<bundle>> once loadScripts has returned, else <<>>
  thrown,         \* <<exception>> once loadScripts has thrown, else <<>>
  assertFailed,   \* assert(command != "END") saw "END" (and NDEBUG let it pass)
  steps,          \* the loop iterations loadScripts has run so far
  statics,        \* the function-local statics constructed in this process
  calls           \* the calls of loadScripts that ended before this one

vars == <<lines, scriptSource, sourceStream, pc, bundle, scriptName, script,
          pages, box, messageLines, startOfLine, returned, thrown, assertFailed,
          steps, statics, calls>>

-----------------------------------------------------------------------------
(* Characters and strings *)

\* std::isspace in the "C" locale (blank symbols of the alphabet).
IsSpace(c) == c \in {" ", "\t", "\n", "\r"}

IsDigit(c) == c \in {"0", "1", "2", "3", "4", "5", "6", "7", "8", "9"}

DigitVal(c) ==
  CASE c = "0" -> 0 [] c = "1" -> 1 [] c = "2" -> 2 [] c = "3" -> 3
    [] c = "4" -> 4 [] c = "5" -> 5 [] c = "6" -> 6 [] c = "7" -> 7
    [] c = "8" -> 8 [] c = "9" -> 9

\* The std::string made of the symbols of s.
RECURSIVE Str(_)
Str(s) == IF s = <<>> THEN "" ELSE Head(s) \o Str(Tail(s))

\* The least index of S, or none.
First(S, none) == IF S = {} THEN none ELSE CHOOSE i \in S : \A j \in S : i <= j

NotSpace(c) == ~IsSpace(c)

NotDigit(c) == ~IsDigit(c)

\* The greatest index of S, or none.
Last(S, none) == IF S = {} THEN none ELSE CHOOSE i \in S : \A j \in S : i >= j

\* boost::trim_left, boost::trim_right, boost::trim
trim_left(s) == SubSeq(s, First({ix \in 1..Len(s) : NotSpace(s[ix])}, Len(s) + 1), Len(s))

trim_right(s) == SubSeq(s, 1, Last({ix \in 1..Len(s) : NotSpace(s[ix])}, 0))

trim(s) == trim_right(trim_left(s))

NotSlash(c) == c # "/"

\* isCommand as a search for "//" anywhere in the line.
isCommandAnywhere(line) ==
  \E i \in 1..Len(line) - 1 : line[i] = "/" /\ line[i + 1] = "/"

isCommand(line) == Len(line) >= 2 /\ line[1] = "/" /\ line[2] = "/"

\* stripCommandPrefix as the removal of the first two characters.
stripTwoSlashes(line) == SubSeq(line, 3, Len(line))

stripCommandPrefix(line) ==
  SubSeq(line, First({ix \in 1..Len(line) : NotSlash(line[ix])}, Len(line) + 1),
         Len(line))

-----------------------------------------------------------------------------
(* std::istream *)

INT_MAX == 2147483647

INT_MIN == 0 - INT_MAX - 1

NewStream == [pos |-> 1, eof |-> FALSE, fail |-> FALSE]

Good(st) == ~st.eof /\ ~st.fail

\* The sentry of an input function on a stream that is not good().
SetFail(st) == [st EXCEPT !.fail = TRUE]

\* skipWhiteSpace: while (!eof() && isspace(peek())) get();
\* peek() at the end of the buffer sets eofbit; on a failed stream it
\* returns EOF, which is no space.
RECURSIVE skipWhiteSpace(_, _)
skipWhiteSpace(buf, st) ==
  IF st.eof \/ st.fail THEN st
  ELSE IF st.pos > Len(buf) THEN [st EXCEPT !.eof = TRUE]
  ELSE IF IsSpace(buf[st.pos]) THEN skipWhiteSpace(buf, [st EXCEPT !.pos = @ + 1])
  ELSE st

\* std::getline(stream, line, delim): [st, ok, line].
getline(buf, st, delim) ==
  IF ~Good(st) THEN [st |-> SetFail(st), ok |-> FALSE, line |-> <<>>]
  ELSE LET IsDelim(c) == c = delim
           end == First({ix \in st.pos..Len(buf) : IsDelim(buf[ix])}, Len(buf) + 1)
       IN  IF end <= Len(buf)
           THEN [st |-> [st EXCEPT !.pos = end + 1], ok |-> TRUE,
                 line |-> SubSeq(buf, st.pos, end - 1)]
           ELSE IF st.pos > Len(buf)
           THEN [st |-> [st EXCEPT !.eof = TRUE, !.fail = TRUE], ok |-> FALSE,
                 line |-> <<>>]
           ELSE [st |-> [st EXCEPT !.pos = Len(buf) + 1, !.eof = TRUE],
                 ok |-> TRUE, line |-> SubSeq(buf, st.pos, Len(buf))]

\* stream.get(): extracts one character if there is one.
get(buf, st) ==
  IF ~Good(st) THEN SetFail(st)
  ELSE IF st.pos > Len(buf) THEN [st EXCEPT !.eof = TRUE, !.fail = TRUE]
  ELSE [st EXCEPT !.pos = @ + 1]

\* stream >> std::string: [st, tok].  The callers pass an empty string,
\* which a failed extraction leaves empty.
ExtractString(buf, st) ==
  IF ~Good(st) THEN [st |-> SetFail(st), tok |-> ""]
  ELSE LET p == First({ix \in st.pos..Len(buf) : NotSpace(buf[ix])}, Len(buf) + 1)
           e == First({ix \in p..Len(buf) : IsSpace(buf[ix])}, Len(buf) + 1)
       IN  IF p > Len(buf)
           THEN [st |-> [pos |-> p, eof |-> TRUE, fail |-> TRUE], tok |-> ""]
           ELSE [st |-> [pos |-> e, eof |-> e > Len(buf), fail |-> FALSE],
                 tok |-> Str(SubSeq(buf, p, e - 1))]

\* The value of a run of decimal digits, as far as an int holds it:
\* [val, over].  over is 0 if the value is val <= INT_MAX, 1 if the value
\* is INT_MAX + 1 (the magnitude of INT_MIN), 2 if it is greater.
RECURSIVE Decimal(_)
Decimal(ds) ==
  IF ds = <<>> THEN [val |-> 0, over |-> 0]
  ELSE LET r == Decimal(SubSeq(ds, 1, Len(ds) - 1))
           d == DigitVal(ds[Len(ds)])
       IN  IF r.over > 0 THEN [val |-> INT_MAX, over |-> 2]
           ELSE IF r.val <= (INT_MAX - d) \div 10
           THEN [val |-> 10 * r.val + d, over |-> 0]
           ELSE IF r.val = INT_MAX \div 10 /\ d = (INT_MAX % 10) + 1
           THEN [val |-> INT_MAX, over |-> 1]
           ELSE [val |-> INT_MAX, over |-> 2]

\* stream >> int: [st, val].  The callers pass a variable holding 0; a
\* failed extraction stores 0, an overflowing one the nearest limit.
ExtractInt(buf, st) ==
  IF ~Good(st) THEN [st |-> SetFail(st), val |-> 0]
  ELSE LET p == First({ix \in st.pos..Len(buf) : NotSpace(buf[ix])}, Len(buf) + 1)
           signed == p <= Len(buf) /\ buf[p] \in {"-", "+"}
           q == IF signed THEN p + 1 ELSE p
           e == First({ix \in q..Len(buf) : NotDigit(buf[ix])}, Len(buf) + 1)
           n == Decimal(SubSeq(buf, q, e - 1))
           negative == signed /\ buf[p] = "-"
       IN  IF p > Len(buf)
           THEN [st |-> [pos |-> p, eof |-> TRUE, fail |-> TRUE], val |-> 0]
           ELSE IF e = q
           THEN [st |-> [pos |-> q, eof |-> q > Len(buf), fail |-> TRUE],
                 val |-> 0]
           ELSE IF ~negative /\ n.over > 0
           THEN [st |-> [pos |-> e, eof |-> e > Len(buf), fail |-> TRUE],
                 val |-> INT_MAX]
           ELSE IF negative /\ n.over > 0
           THEN [st |-> [pos |-> e, eof |-> e > Len(buf), fail |-> n.over = 2],
                 val |-> INT_MIN]
           ELSE [st |-> [pos |-> e, eof |-> e > Len(buf), fail |-> FALSE],
                 val |-> IF negative THEN 0 - n.val ELSE n.val]

\* stream.tellg(): [st, at]; -1 on a stream that is not good().
tellg(st) ==
  IF ~Good(st) THEN [st |-> SetFail(st), at |-> -1]
  ELSE [st |-> st, at |-> st.pos]

\* stream.seekg(at): clears eofbit, then seeks unless the stream has failed.
seekg(st, at) ==
  IF st.fail THEN [st EXCEPT !.eof = FALSE]
  ELSE IF at < 1 THEN [st EXCEPT !.eof = FALSE, !.fail = TRUE]
  ELSE [st EXCEPT !.eof = FALSE, !.pos = at]

-----------------------------------------------------------------------------
(* data::script::Action *)

FadeIn == [type |-> "FadeIn"]

FadeOut == [type |-> "FadeOut"]

Delay(amount) == [type |-> "Delay", amount |-> amount]

AnimateNewsReporter(duration) ==
  [type |-> "AnimateNewsReporter", duration |-> duration]

StopNewsReporterAnimation == [type |-> "StopNewsReporterAnimation"]

DisableMenuFunctionality == [type |-> "DisableMenuFunctionality"]

ShowKeyBindings == [type |-> "ShowKeyBindings"]

ShowSaveSlots(slot) == [type |-> "ShowSaveSlots", slot |-> slot]

DrawSprite(x, y, actorId, frame) ==
  [type |-> "DrawSprite", x |-> x, y |-> y, actorId |-> actorId, frame |-> frame]

ShowFullScreenImage(imageName) ==
  [type |-> "ShowFullScreenImage", imageName |-> imageName]

ShowMenuSelectionIndicator(yPos) ==
  [type |-> "ShowMenuSelectionIndicator", yPos |-> yPos]

DrawText(x, y, text) == [type |-> "DrawText", x |-> x, y |-> y, text |-> text]

DrawBigText(x, y, colorIndex, text) ==
  [type |-> "DrawBigText", x |-> x, y |-> y, colorIndex |-> colorIndex,
   text |-> text]

SetPalette(paletteFile) == [type |-> "SetPalette", paletteFile |-> paletteFile]

WaitForUserInput == [type |-> "WaitForUserInput"]

EnableTextOffset == [type |-> "EnableTextOffset"]

EnableTimeOutToDemo == [type |-> "EnableTimeOutToDemo"]

SetupCheckBoxes(xPos, definitions) ==
  [type |-> "SetupCheckBoxes", xPos |-> xPos, definitions |-> definitions]

ShowMessageBox(y, width, height, msgLines) ==
  [type |-> "ShowMessageBox", yPos |-> y, width |-> width, height |-> height,
   lines |-> msgLines]

PagesDefinition(pgs) == [type |-> "PagesDefinition", pages |-> pgs]

ConfigurePersistentMenuSelection(slot) ==
  [type |-> "ConfigurePersistentMenuSelection", slot |-> slot]

ScheduleFadeInBeforeNextWaitState == [type |-> "ScheduleFadeInBeforeNextWaitState"]

-----------------------------------------------------------------------------
(* The exceptions (std::invalid_argument), by their messages *)

\* MissingEndMarker without the name of the marker.
MissingEndMarkerUnnamed(endMarker) == "Missing end marker in Duke Script file"

MissingEndMarker(endMarker) ==
  "Missing end marker '" \o endMarker \o "' in Duke Script file"

CorruptFile == "Corrupt Duke Script file"

InvalidCommand(name) == "Invalid " \o name \o " command in Duke Script file"

NotAllowed(command) == "The command " \o command \o " is not allowed in this context"

StoiFailed == "stoi"

-----------------------------------------------------------------------------
(* parseOneLineAction *)

\* What a call can come to: it returns an action or b::none, it throws, or
\* the process is aborted (a failed assert without NDEBUG, or a checked
\* out-of-range read).  asserted: the assert's condition was false;
\* static: the call went through the declaration of notAllowedHere.
Returns(a) ==
  [actions |-> <<a>>, thrown |-> <<>>, aborted |-> FALSE, asserted |-> FALSE,
   static |-> FALSE]

ReturnsNone ==
  [actions |-> <<>>, thrown |-> <<>>, aborted |-> FALSE, asserted |-> FALSE,
   static |-> FALSE]

Throws(msg) ==
  [actions |-> <<>>, thrown |-> <<msg>>, aborted |-> FALSE, asserted |-> FALSE,
   static |-> FALSE]

Aborts ==
  [actions |-> <<>>, thrown |-> <<>>, aborted |-> TRUE, asserted |-> FALSE,
   static |-> FALSE]

\* The unsigned value of a markup byte; every other symbol is made of
\* bytes below 0xEF.
MarkupBytes ==
  ("<EF>" :> 239) @@ ("<F0>" :> 240) @@ ("<F7>" :> 247) @@ ("<FF>" :> 255)

IsMarkup(c) == c \in DOMAIN MarkupBytes

\* The number of bytes of a symbol, and of a run of symbols.
ByteLen(c) == IF IsMarkup(c) THEN 1 ELSE Len(c)

RECURSIVE Size(_)
Size(s) == IF s = <<>> THEN 0 ELSE ByteLen(Head(s)) + Size(Tail(s))

IsBigTextMarker(c) == IsMarkup(c) /\ MarkupBytes[c] >= 240

\* std::stoi of a string given by its symbols: [ok, val].
stoi(s) ==
  LET p == First({ix \in 1..Len(s) : NotSpace(s[ix])}, Len(s) + 1)
      signed == p <= Len(s) /\ s[p] \in {"-", "+"}
      q == IF signed THEN p + 1 ELSE p
      e == First({ix \in q..Len(s) : NotDigit(s[ix])}, Len(s) + 1)
      n == Decimal(SubSeq(s, q, e - 1)).val
  IN  [ok |-> e > q, val |-> IF signed /\ s[p] = "-" THEN 0 - n ELSE n]

\* CheckBoxDefinitions with every definition put in front of the list.
RECURSIVE CheckBoxDefinitionsReversed(_, _, _)
CheckBoxDefinitionsReversed(buf, st, count) ==
  IF count <= 0 THEN <<>>
  ELSE LET yPos == ExtractInt(buf, st)
           id == ExtractInt(buf, yPos.st)
       IN  CheckBoxDefinitionsReversed(buf, id.st, count - 1)
             \o <<[yPos |-> yPos.val, id |-> id.val]>>

\* CheckBoxDefinitions that ends where a pair could not be read.
RECURSIVE CheckBoxDefinitionsWhileGood(_, _, _)
CheckBoxDefinitionsWhileGood(buf, st, count) ==
  IF count <= 0 THEN <<>>
  ELSE LET yPos == ExtractInt(buf, st)
           id == ExtractInt(buf, yPos.st)
       IN  IF id.st.fail THEN <<>>
           ELSE <<[yPos |-> yPos.val, id |-> id.val]>>
                  \o CheckBoxDefinitionsWhileGood(buf, id.st, count - 1)

\* The TOGGS loop: count pairs of (yPos, id) read from the line.
RECURSIVE CheckBoxDefinitions(_, _, _)
CheckBoxDefinitions(buf, st, count) ==
  IF count <= 0 THEN <<>>
  ELSE LET yPos == ExtractInt(buf, st)
           id == ExtractInt(buf, yPos.st)
       IN  <<[yPos |-> yPos.val, id |-> id.val]>>
             \o CheckBoxDefinitions(buf, id.st, count - 1)

\* BigTextColour as the value of the whole markup byte.
BigTextColourByte(c) == MarkupBytes[c]

\* static_cast<uint8_t>(*bigTextMarkerIter) - 0xF0 (line 270).
BigTextColour(c) == MarkupBytes[c] - 240

\* XYTextOutcomes with the sprite drawn at x, y.
XYTextOutcomesSpriteAtXY(buf, lts) ==
  LET x == ExtractInt(buf, lts)
      y == ExtractInt(buf, x.st)
      rest == getline(buf, get(buf, y.st), "\r")
      parameters == rest.line
      k == First({ix \in 1..Len(parameters) : IsBigTextMarker(parameters[ix])},
                 Len(parameters) + 1)
      actor == stoi(SubSeq(parameters, 2, 4))
      frame == stoi(SubSeq(parameters, 5, IF Len(parameters) < 6 THEN Len(parameters) ELSE 6))
      sprite == IF ~actor.ok \/ ~frame.ok THEN Throws(StoiFailed)
                ELSE Returns(DrawSprite(x.val, y.val, actor.val, frame.val))
  IN  IF parameters = <<>> THEN {Throws(CorruptFile)}
      ELSE IF k <= Len(parameters)
      THEN {Returns(DrawBigText(x.val + Size(SubSeq(parameters, 1, k - 1)), y.val,
                                MarkupBytes[parameters[k]] - 240,
                                Str(SubSeq(parameters, k + 1, Len(parameters)))))}
      ELSE IF parameters[1] = "<EF>"
      THEN IF Size(parameters) < 5 THEN {Throws(CorruptFile)}
           ELSE IF Size(parameters) = 5 THEN {sprite, Aborts}
           ELSE {sprite}
      ELSE {Returns(DrawText(x.val, y.val, Str(parameters)))}

\* XYTextOutcomes with the big text drawn at x.
XYTextOutcomesBigTextAtX(buf, lts) ==
  LET x == ExtractInt(buf, lts)
      y == ExtractInt(buf, x.st)
      rest == getline(buf, get(buf, y.st), "\r")
      parameters == rest.line
      k == First({ix \in 1..Len(parameters) : IsBigTextMarker(parameters[ix])},
                 Len(parameters) + 1)
      actor == stoi(SubSeq(parameters, 2, 4))
      frame == stoi(SubSeq(parameters, 5, IF Len(parameters) < 6 THEN Len(parameters) ELSE 6))
      sprite == IF ~actor.ok \/ ~frame.ok THEN Throws(StoiFailed)
                ELSE Returns(DrawSprite(x.val + 2, y.val + 1, actor.val, frame.val))
  IN  IF parameters = <<>> THEN {Throws(CorruptFile)}
      ELSE IF k <= Len(parameters)
      THEN {Returns(DrawBigText(x.val, y.val,
                                MarkupBytes[parameters[k]] - 240,
                                Str(SubSeq(parameters, k + 1, Len(parameters)))))}
      ELSE IF parameters[1] = "<EF>"
      THEN IF Size(parameters) < 5 THEN {Throws(CorruptFile)}
           ELSE IF Size(parameters) = 5 THEN {sprite, Aborts}
           ELSE {sprite}
      ELSE {Returns(DrawText(x.val, y.val, Str(parameters)))}

\* XYTextOutcomes with the test for 0xEF before the search for a big text
\* marker.
XYTextOutcomesSpriteFirst(buf, lts) ==
  LET x == ExtractInt(buf, lts)
      y == ExtractInt(buf, x.st)
      rest == getline(buf, get(buf, y.st), "\r")
      parameters == rest.line
      k == First({ix \in 1..Len(parameters) : IsBigTextMarker(parameters[ix])},
                 Len(parameters) + 1)
      actor == stoi(SubSeq(parameters, 2, 4))
      frame == stoi(SubSeq(parameters, 5, IF Len(parameters) < 6 THEN Len(parameters) ELSE 6))
      sprite == IF ~actor.ok \/ ~frame.ok THEN Throws(StoiFailed)
                ELSE Returns(DrawSprite(x.val + 2, y.val + 1, actor.val, frame.val))
  IN  IF parameters = <<>> THEN {Throws(CorruptFile)}
      ELSE IF parameters[1] = "<EF>"
      THEN IF Size(parameters) < 5 THEN {Throws(CorruptFile)}
           ELSE IF Size(parameters) = 5 THEN {sprite, Aborts}
           ELSE {sprite}
      ELSE IF k <= Len(parameters)
      THEN {Returns(DrawBigText(x.val + Size(SubSeq(parameters, 1, k - 1)), y.val,
                                BigTextColour(parameters[k]),
                                Str(SubSeq(parameters, k + 1, Len(parameters)))))}
      ELSE {Returns(DrawText(x.val, y.val, Str(parameters)))}

\* The XYTEXT branch (lines 244-295).  The sprite variant reads the bytes
\* 1..5 of the payload; it is written for payloads of one-byte symbols.
\* With a payload of exactly 5 bytes the frame string is built from the
\* range [4, 6), which ends past the end of the payload (undefined
\* behaviour): the read yields the string's terminating NUL, so that the
\* frame is the one digit present, or a checked build aborts.
XYTextOutcomes(buf, lts) ==
  LET x == ExtractInt(buf, lts)
      y == ExtractInt(buf, x.st)
      rest == getline(buf, get(buf, y.st), "\r")
      parameters == rest.line
      k == First({ix \in 1..Len(parameters) : IsBigTextMarker(parameters[ix])},
                 Len(parameters) + 1)
      actor == stoi(SubSeq(parameters, 2, 4))
      frame == stoi(SubSeq(parameters, 5, IF Len(parameters) < 6 THEN Len(parameters) ELSE 6))
      sprite == IF ~actor.ok \/ ~frame.ok THEN Throws(StoiFailed)
                ELSE Returns(DrawSprite(x.val + 2, y.val + 1, actor.val, frame.val))
  IN  IF parameters = <<>> THEN {Throws(CorruptFile)}
      ELSE IF k <= Len(parameters)
      THEN {Returns(DrawBigText(x.val + Size(SubSeq(parameters, 1, k - 1)), y.val,
                                BigTextColour(parameters[k]),
                                Str(SubSeq(parameters, k + 1, Len(parameters)))))}
      ELSE IF parameters[1] = "<EF>"
      THEN IF Size(parameters) < 5 THEN {Throws(CorruptFile)}
           ELSE IF Size(parameters) = 5 THEN {sprite, Aborts}
           ELSE {sprite}
      ELSE {Returns(DrawText(x.val, y.val, Str(parameters)))}

\* notAllowedHere without the keywords of the blocks' inner lines.
notAllowedHereShort == {"CENTERWINDOW", "MENU", "PAGESSTART"}

\* notAllowedHere without MENU.
notAllowedHereNoMenu ==
  {"APAGE", "CENTERWINDOW", "CWTEXT", "PAGESEND", "PAGESSTART", "SKLINE"}

notAllowedHere ==
  {"APAGE", "CENTERWINDOW", "CWTEXT", "MENU", "PAGESEND", "PAGESSTART", "SKLINE"}

\* The final else branch (lines 337-354).
OtherCommandOutcomes(command) ==
  IF command = "END"
  THEN {[Aborts EXCEPT !.asserted = TRUE],
        [ReturnsNone EXCEPT !.asserted = TRUE, !.static = TRUE]}
  ELSE IF command \in notAllowedHere
  THEN {[Throws(NotAllowed(command)) EXCEPT !.static = TRUE]}
  ELSE {[ReturnsNone EXCEPT !.static = TRUE]}

\* GetNamesOutcomes with slot 8 let pass.
GetNamesOutcomesUpTo8(buf, lts) ==
  LET slot == ExtractInt(buf, lts).val
  IN  IF slot < 0 \/ slot > 8 THEN {Throws(InvalidCommand("GETNAMES"))}
      ELSE {Returns(ShowSaveSlots(slot))}

\* The GETNAMES branch (lines 183-191).
GetNamesOutcomes(buf, lts) ==
  LET slot == ExtractInt(buf, lts).val
  IN  IF slot < 0 \/ slot >= 8 THEN {Throws(InvalidCommand("GETNAMES"))}
      ELSE {Returns(ShowSaveSlots(slot))}

\* parseOneLineAction(command, lineTextStream): the set of its outcomes.
\* buf is the line the stream reads, lts the stream after the command.
parseOneLineAction(command, buf, lts) ==
  CASE command = "FADEIN" -> {Returns(FadeIn)}
    [] command = "FADEOUT" -> {Returns(FadeOut)}
    [] command = "DELAY" ->
         LET amount == ExtractInt(buf, lts).val
         IN  IF amount <= 0 THEN {Throws(InvalidCommand("DELAY"))}
             ELSE {Returns(Delay(amount))}
    [] command = "BABBLEON" ->
         LET duration == ExtractInt(buf, lts).val
         IN  IF duration <= 0 THEN {Throws(InvalidCommand("BABBLEON"))}
             ELSE {Returns(AnimateNewsReporter(duration))}
    [] command = "BABBLEOFF" -> {Returns(StopNewsReporterAnimation)}
    [] command = "NOSOUNDS" -> {Returns(DisableMenuFunctionality)}
    [] command = "KEYS" -> {Returns(ShowKeyBindings)}
    [] command = "GETNAMES" -> GetNamesOutcomes(buf, lts)
    [] command = "PAK" -> {Returns(DrawSprite(0, 0, 146, 0))}
    [] command = "LOADRAW" ->
         LET imageName == ExtractString(buf, lts).tok
         IN  IF imageName = "" THEN {Throws(InvalidCommand("LOADRAW"))}
             ELSE {Returns(ShowFullScreenImage(imageName))}
    [] command = "Z" -> {Returns(ShowMenuSelectionIndicator(ExtractInt(buf, lts).val))}
    [] command = "XYTEXT" -> XYTextOutcomes(buf, lts)
    [] command = "GETPAL" ->
         LET paletteFile == ExtractString(buf, lts).tok
         IN  IF paletteFile = "" THEN {Throws(InvalidCommand("LOADRAW"))}
             ELSE {Returns(SetPalette(paletteFile))}
    [] command = "WAIT" -> {Returns(WaitForUserInput)}
    [] command = "SHIFTWIN" -> {Returns(EnableTextOffset)}
    [] command = "EXITTODEMO" -> {Returns(EnableTimeOutToDemo)}
    [] command = "TOGGS" ->
         LET xPos == ExtractInt(buf, lts)
             count == ExtractInt(buf, xPos.st)
         IN  {Returns(SetupCheckBoxes(xPos.val,
                        CheckBoxDefinitions(buf, count.st, count.val)))}
    [] OTHER -> OtherCommandOutcomes(command)

-----------------------------------------------------------------------------
(* The call of loadScripts as a state machine.  One step is one iteration *)
(* of the loop of the function that pc names.                              *)

NoBox == [y |-> 0, width |-> 0, height |-> 0]

\* Throw with the exception caught and the parsing going on.
ThrowAndGoOn(st, msg) ==
  /\ thrown' = <<msg>>
  /\ sourceStream' = st
  /\ UNCHANGED <<lines, scriptSource, pc, bundle, scriptName, script, pages, box,
                 messageLines, startOfLine, returned, assertFailed>>

\* An exception leaves loadScripts: nothing is returned.
Throw(st, msg) ==
  /\ pc' = "thrown"
  /\ thrown' = <<msg>>
  /\ sourceStream' = st
  /\ UNCHANGED <<lines, scriptSource, bundle, scriptName, script, pages, box,
                 messageLines, startOfLine, returned, assertFailed>>

\* The process is aborted inside parseOneLineAction.
Abort(st, o) ==
  /\ pc' = "aborted"
  /\ assertFailed' = (assertFailed \/ o.asserted)
  /\ sourceStream' = st
  /\ UNCHANGED <<lines, scriptSource, bundle, scriptName, script, pages, box,
                 messageLines, startOfLine, returned, thrown>>

\* A build has NDEBUG or has not: once a failed assert was let pass, the
\* next one is let pass too.
Possible(o) == (o.aborted /\ o.asserted) => ~assertFailed

\* A line that is no command is skipped (line 79, line 108).
SkipLine(st) ==
  /\ sourceStream' = st
  /\ UNCHANGED <<lines, scriptSource, pc, bundle, scriptName, script, pages, box,
                 messageLines, startOfLine, returned, thrown, assertFailed>>

\* Emplace as an insertion that overwrites.
EmplaceOverwrite(b, name, s) ==
  [n \in DOMAIN b \cup {name} |-> IF n = name THEN s ELSE b[n]]

\* bundle.emplace(scriptName, script): a map keeps the entry it has.
Emplace(b, name, s) == IF name \in DOMAIN b THEN b ELSE b @@ (name :> s)

\* The most loop iterations a call is followed for.
MaxSteps == 40

\* One more iteration of one of the loops (lines 79, 103, 364, 441).
Iterate ==
  /\ steps < MaxSteps
  /\ steps' = steps + 1
  /\ UNCHANGED calls

\* LoadScriptsLoop with a stream that is left as it was when no name is
\* read.
LoadScriptsLoopSpin ==
  /\ pc = "loadScripts"
  /\ Iterate
  /\ UNCHANGED statics
  /\ ~sourceStream.eof
  /\ LET name == ExtractString(scriptSource, skipWhiteSpace(scriptSource, sourceStream))
     IN  IF name.tok # ""
         THEN /\ pc' = "parseScript"
              /\ scriptName' = name.tok
              /\ script' = <<>>
              /\ sourceStream' = skipWhiteSpace(scriptSource, name.st)
         ELSE UNCHANGED <<sourceStream, pc, scriptName, script>>
  /\ UNCHANGED <<lines, scriptSource, bundle, pages, box, messageLines,
                 startOfLine, returned, thrown, assertFailed>>

\* loadScripts, one iteration of while (!sourceStream.eof()) (lines 441-451).
\* A script name starts parseScript, whose parseScriptLines first skips
\* white space (line 76).
LoadScriptsLoop ==
  /\ pc = "loadScripts"
  /\ Iterate
  /\ UNCHANGED statics
  /\ ~sourceStream.eof
  /\ LET name == ExtractString(scriptSource, skipWhiteSpace(scriptSource, sourceStream))
     IN  IF name.tok # ""
         THEN /\ pc' = "parseScript"
              /\ scriptName' = name.tok
              /\ script' = <<>>
              /\ sourceStream' = skipWhiteSpace(scriptSource, name.st)
         ELSE /\ sourceStream' = name.st
              /\ UNCHANGED <<pc, scriptName, script>>
  /\ UNCHANGED <<lines, scriptSource, bundle, pages, box, messageLines,
                 startOfLine, returned, thrown, assertFailed>>

\* loadScripts, return bundle (line 453).
LoadScriptsReturn ==
  /\ pc = "loadScripts"
  /\ Iterate
  /\ UNCHANGED statics
  /\ sourceStream.eof
  /\ pc' = "returned"
  /\ returned' = <<bundle>>
  /\ UNCHANGED <<lines, scriptSource, sourceStream, bundle, scriptName, script,
                 pages, box, messageLines, startOfLine, thrown, assertFailed>>

\* parseScript returns at the end marker: line 449 stores the script.
ReturnScript(st) ==
  /\ pc' = "loadScripts"
  /\ bundle' = Emplace(bundle, scriptName, script)
  /\ script' = <<>>
  /\ scriptName' = ""
  /\ sourceStream' = st
  /\ UNCHANGED <<lines, scriptSource, pages, box, messageLines, startOfLine,
                 returned, thrown, assertFailed>>

\* StartPages with an empty list of pages.
StartPagesNoPage(st) ==
  /\ pc' = "parsePagesDefinition"
  /\ pages' = <<>>
  /\ sourceStream' = skipWhiteSpace(scriptSource, skipWhiteSpace(scriptSource, st))
  /\ UNCHANGED <<lines, scriptSource, bundle, scriptName, script, box,
                 messageLines, startOfLine, returned, thrown, assertFailed>>

\* PAGESSTART (lines 413-415, 363-364): white space is skipped by
\* parseScript and again by parseScriptLines.
StartPages(st) ==
  /\ pc' = "parsePagesDefinition"
  /\ pages' = << <<>> >>
  /\ sourceStream' = skipWhiteSpace(scriptSource, skipWhiteSpace(scriptSource, st))
  /\ UNCHANGED <<lines, scriptSource, bundle, scriptName, script, box,
                 messageLines, startOfLine, returned, thrown, assertFailed>>

\* MenuActions with the two actions in the other order.
MenuActionsSwapped(slot) ==
  <<ScheduleFadeInBeforeNextWaitState, ConfigurePersistentMenuSelection(slot)>>

\* MENU (lines 416-421).
MenuActions(slot) ==
  <<ConfigurePersistentMenuSelection(slot), ScheduleFadeInBeforeNextWaitState>>

Menu(line, lts, st) ==
  /\ script' = script \o MenuActions(ExtractInt(line, lts).val)
  /\ sourceStream' = st
  /\ UNCHANGED <<lines, scriptSource, pc, bundle, scriptName, pages, box,
                 messageLines, startOfLine, returned, thrown, assertFailed>>

\* StartMessageBox with the width read before the height.
StartMessageBoxWidthFirst(line, lts, st) ==
  LET y == ExtractInt(line, lts)
      width == ExtractInt(line, y.st)
      height == ExtractInt(line, width.st)
      at == tellg(skipWhiteSpace(scriptSource, st))
  IN  /\ pc' = "parseMessageBoxTextDefinition"
      /\ box' = [y |-> y.val, width |-> width.val, height |-> height.val]
      /\ messageLines' = <<>>
      /\ startOfLine' = at.at
      /\ sourceStream' = at.st
      /\ UNCHANGED <<lines, scriptSource, bundle, scriptName, script, pages,
                     returned, thrown, assertFailed>>

\* CENTERWINDOW (lines 386-399, 99-105): y, height and width are read from
\* the line, then the message box lines are parsed.
StartMessageBox(line, lts, st) ==
  LET y == ExtractInt(line, lts)
      height == ExtractInt(line, y.st)
      width == ExtractInt(line, height.st)
      at == tellg(skipWhiteSpace(scriptSource, st))
  IN  /\ pc' = "parseMessageBoxTextDefinition"
      /\ box' = [y |-> y.val, width |-> width.val, height |-> height.val]
      /\ messageLines' = <<>>
      /\ startOfLine' = at.at
      /\ sourceStream' = at.st
      /\ UNCHANGED <<lines, scriptSource, bundle, scriptName, script, pages,
                     returned, thrown, assertFailed>>

\* ScriptAppend with the action put in front of the script.
ScriptPrepend(o, st) ==
  /\ script' = o.actions \o script
  /\ assertFailed' = (assertFailed \/ o.asserted)
  /\ sourceStream' = st
  /\ UNCHANGED <<lines, scriptSource, pc, bundle, scriptName, pages, box,
                 messageLines, startOfLine, returned, thrown>>

\* The outcome of parseOneLineAction in parseScript (lines 423-428).
ScriptAppend(o, st) ==
  /\ script' = script \o o.actions
  /\ assertFailed' = (assertFailed \/ o.asserted)
  /\ sourceStream' = st
  /\ UNCHANGED <<lines, scriptSource, pc, bundle, scriptName, pages, box,
                 messageLines, startOfLine, returned, thrown>>

\* The lambda of parseScript (lines 410-429) with parseAction (381-403).
ScriptConsumeLine(command, line, lts, st) ==
  IF command = "PAGESSTART" THEN StartPages(st) /\ UNCHANGED statics
  ELSE IF command = "MENU" THEN Menu(line, lts, st) /\ UNCHANGED statics
  ELSE IF command = "CENTERWINDOW"
  THEN StartMessageBox(line, lts, st) /\ UNCHANGED statics
  ELSE \E o \in parseOneLineAction(command, line, lts) :
         /\ Possible(o)
         /\ statics' = IF o.static THEN statics \cup {"notAllowedHere"} ELSE statics
         /\ IF o.aborted THEN Abort(st, o)
            ELSE IF o.thrown # <<>> THEN Throw(st, o.thrown[1])
            ELSE ScriptAppend(o, st)

\* parseScript: one iteration of the loop of parseScriptLines (lines 77-94)
\* with the end marker "END".
ParseScriptLine ==
  /\ pc = "parseScript"
  /\ Iterate
  /\ LET read == getline(scriptSource, sourceStream, "\n")
         line == trim(read.line)
         stripped == stripCommandPrefix(line)
         command == ExtractString(stripped, NewStream)
     IN  IF ~read.ok
         THEN Throw(read.st, MissingEndMarker("END")) /\ UNCHANGED statics
         ELSE IF ~isCommand(line) THEN SkipLine(read.st) /\ UNCHANGED statics
         ELSE IF Str(stripped) = "END" THEN ReturnScript(read.st) /\ UNCHANGED statics
         ELSE ScriptConsumeLine(command.tok, stripped, command.st, read.st)

\* ReturnPages that ends the script together with the block.
ReturnPagesAndScript(st) ==
  /\ pc' = "loadScripts"
  /\ script' = Append(script, PagesDefinition(pages))
  /\ pages' = <<>>
  /\ sourceStream' = st
  /\ UNCHANGED <<lines, scriptSource, bundle, scriptName, box, messageLines,
                 startOfLine, returned, thrown, assertFailed>>

\* parsePagesDefinition returns at the end marker (line 377, lines 415, 427).
ReturnPages(st) ==
  /\ pc' = "parseScript"
  /\ script' = Append(script, PagesDefinition(pages))
  /\ pages' = <<>>
  /\ sourceStream' = st
  /\ UNCHANGED <<lines, scriptSource, bundle, scriptName, box, messageLines,
                 startOfLine, returned, thrown, assertFailed>>

\* APAGE (lines 366-367).
NewPage(st) ==
  /\ pages' = Append(pages, <<>>)
  /\ sourceStream' = st
  /\ UNCHANGED <<lines, scriptSource, pc, bundle, scriptName, script, box,
                 messageLines, startOfLine, returned, thrown, assertFailed>>

\* PageAppend with the action put on the first page.
PageAppendFirst(o, st) ==
  /\ pages' = [pages EXCEPT ![1] = @ \o o.actions]
  /\ assertFailed' = (assertFailed \/ o.asserted)
  /\ sourceStream' = st
  /\ UNCHANGED <<lines, scriptSource, pc, bundle, scriptName, script, box,
                 messageLines, startOfLine, returned, thrown>>

\* The outcome of parseOneLineAction in a page (lines 369-373).
PageAppend(o, st) ==
  /\ pages' = [pages EXCEPT ![Len(pages)] = @ \o o.actions]
  /\ assertFailed' = (assertFailed \/ o.asserted)
  /\ sourceStream' = st
  /\ UNCHANGED <<lines, scriptSource, pc, bundle, scriptName, script, box,
                 messageLines, startOfLine, returned, thrown>>

\* The lambda of parsePagesDefinition (lines 365-375).
PagesConsumeLine(command, line, lts, st) ==
  IF command = "APAGE" THEN NewPage(st) /\ UNCHANGED statics
  ELSE \E o \in parseOneLineAction(command, line, lts) :
         /\ Possible(o)
         /\ statics' = IF o.static THEN statics \cup {"notAllowedHere"} ELSE statics
         /\ IF o.aborted THEN Abort(st, o)
            ELSE IF o.thrown # <<>> THEN Throw(st, o.thrown[1])
            ELSE PageAppend(o, st)

\* parsePagesDefinition: one iteration of the loop of parseScriptLines
\* (lines 77-94) with the end marker "PAGESEND".
ParsePagesLine ==
  /\ pc = "parsePagesDefinition"
  /\ Iterate
  /\ LET read == getline(scriptSource, sourceStream, "\n")
         line == trim(read.line)
         stripped == stripCommandPrefix(line)
         command == ExtractString(stripped, NewStream)
     IN  IF ~read.ok
         THEN Throw(read.st, MissingEndMarker("PAGESEND")) /\ UNCHANGED statics
         ELSE IF ~isCommand(line) THEN SkipLine(read.st) /\ UNCHANGED statics
         ELSE IF Str(stripped) = "PAGESEND"
         THEN ReturnPages(read.st) /\ UNCHANGED statics
         ELSE PagesConsumeLine(command.tok, stripped, command.st, read.st)

\* ReturnMessageBox without the lines read so far.
ReturnMessageBoxNoLines(st) ==
  /\ pc' = "parseScript"
  /\ script' = Append(script, ShowMessageBox(box.y, box.width, box.height, <<>>))
  /\ box' = NoBox
  /\ messageLines' = <<>>
  /\ startOfLine' = -1
  /\ sourceStream' = st
  /\ UNCHANGED <<lines, scriptSource, bundle, scriptName, pages, returned,
                 thrown, assertFailed>>

\* parseMessageBoxTextDefinition returns (line 137): parseScript appends
\* the ShowMessageBox (lines 395-399, 427).
ReturnMessageBox(st) ==
  /\ pc' = "parseScript"
  /\ script' = Append(script, ShowMessageBox(box.y, box.width, box.height, messageLines))
  /\ box' = NoBox
  /\ messageLines' = <<>>
  /\ startOfLine' = -1
  /\ sourceStream' = st
  /\ UNCHANGED <<lines, scriptSource, bundle, scriptName, pages, returned,
                 thrown, assertFailed>>

\* A message line is stored and the position after it remembered
\* (lines 123, 125, 133).
AppendMessageLine(text, st) ==
  LET at == tellg(st)
  IN  /\ messageLines' = Append(messageLines, text)
      /\ startOfLine' = at.at
      /\ sourceStream' = at.st
      /\ UNCHANGED <<lines, scriptSource, pc, bundle, scriptName, script, pages,
                     box, returned, thrown, assertFailed>>

\* CWTEXT (lines 115-123): the text of the line up to a carriage return.
CwText(line, lts) == getline(line, get(line, lts), "\r").line

\* Rewind without the seek.
NoRewind(st) == st

\* Rewind to the beginning of the source.
RewindToBegin(st) == seekg(st, 1)

\* The rewind to the start of the command that ends the block (line 129).
Rewind(st) == seekg(st, startOfLine)

\* parseMessageBoxTextDefinition: one iteration of its loop (lines 106-135).
ParseMessageBoxLine ==
  /\ pc = "parseMessageBoxTextDefinition"
  /\ Iterate
  /\ UNCHANGED statics
  /\ LET read == getline(scriptSource, sourceStream, "\n")
         line == trim(read.line)
         stripped == stripCommandPrefix(line)
         command == ExtractString(stripped, NewStream)
         messageLine == CwText(stripped, command.st)
     IN  IF ~read.ok THEN ReturnMessageBox(read.st)
         ELSE IF ~isCommand(line) THEN SkipLine(read.st)
         ELSE IF command.tok = "CWTEXT"
         THEN IF messageLine = <<>> THEN Throw(read.st, CorruptFile)
              ELSE AppendMessageLine(Str(trim_right(messageLine)), read.st)
         ELSE IF command.tok = "SKLINE" THEN AppendMessageLine("", read.st)
         ELSE ReturnMessageBox(Rewind(read.st))

\* The most calls of loadScripts in a process.
MaxCalls == 3

\* NewCall with a bundle that outlives the call.
NewCallKeepBundle(source) ==
  /\ scriptSource' = source
  /\ sourceStream' = NewStream
  /\ bundle' = IF returned = <<>> THEN <<>> ELSE returned[1]
  /\ pc' = "loadScripts"
  /\ scriptName' = ""
  /\ script' = <<>>
  /\ pages' = <<>>
  /\ box' = NoBox
  /\ messageLines' = <<>>
  /\ startOfLine' = -1
  /\ returned' = <<>>
  /\ thrown' = <<>>
  /\ steps' = 0

\* loadScripts is entered (lines 437-440): a new stream over the source, an
\* empty bundle, and the locals of the parsers not yet constructed.
NewCall(source) ==
  /\ scriptSource' = source
  /\ sourceStream' = NewStream
  /\ bundle' = <<>>
  /\ pc' = "loadScripts"
  /\ scriptName' = ""
  /\ script' = <<>>
  /\ pages' = <<>>
  /\ box' = NoBox
  /\ messageLines' = <<>>
  /\ startOfLine' = -1
  /\ returned' = <<>>
  /\ thrown' = <<>>
  /\ steps' = 0

-----------------------------------------------------------------------------
(* The script sources *)

\* The symbols of a source: its lines with a line feed between them (a
\* source that ends with a line feed has an empty last line).
RECURSIVE Join(_)
Join(ls) ==
  IF ls = <<>> THEN <<>>
  ELSE IF Len(ls) = 1 THEN ls[1]
  ELSE ls[1] \o <<"\n">> \o Join(Tail(ls))

\* loadScripts(scriptSource) is called (lines 438-440).
Start(ls) ==
  /\ lines = ls
  /\ scriptSource = Join(ls)
  /\ sourceStream = NewStream
  /\ pc = "loadScripts"
  /\ bundle = <<>>
  /\ scriptName = ""
  /\ script = <<>>
  /\ pages = <<>>
  /\ box = NoBox
  /\ messageLines = <<>>
  /\ startOfLine = -1
  /\ returned = <<>>
  /\ thrown = <<>>
  /\ assertFailed = FALSE
  /\ steps = 0
  /\ statics = {}
  /\ calls = <<>>

Cmd(s) == <<"/", "/">> \o s

LName_a == <<"a">>

LName_b == <<"b">>

LEnd == Cmd(<<"END">>)

LFadeIn == Cmd(<<"FADEIN">>)

LFadeOut == Cmd(<<"FADEOUT">>)

LDelay0 == Cmd(<<"DELAY", " ", "0">>)

LDelay1 == Cmd(<<"DELAY", " ", "1">>)

LDelay2 == Cmd(<<"DELAY", " ", "2">>)

LMenu == Cmd(<<"MENU", " ", "2">>)

LMenu15 == Cmd(<<"MENU", " ", "1", "5">>)

LPagesStart == Cmd(<<"PAGESSTART">>)

LAPage == Cmd(<<"APAGE">>)

LPagesEnd == Cmd(<<"PAGESEND">>)

LCenterWindow == Cmd(<<"CENTERWINDOW", " ", "1", " ", "2", " ", "3">>)

LCwText == Cmd(<<"CWTEXT", " ", "Hi", "\r">>)

LSkLine == Cmd(<<"SKLINE">>)

LSpaceEnd == Cmd(<<" ", "END">>)

LEndX == Cmd(<<"END", " ", "x">>)

LSetKeys == Cmd(<<"SETKEYS">>)

LEte == Cmd(<<"ETE">>)

LHelpText == Cmd(<<"HELPTEXT", " ", "1", " ", "x">>)

LNoKeyword == Cmd(<<>>)

LBlank == <<>>

\* The longest run of freely chosen lines in a source.
MaxLines == 4

BoundedSeq(S, n) == UNION {[1..k -> S] : k \in 0..n}

\* A source ends after its last line or with a line feed.
Tails == {<<>>, <<LBlank>>}

\* Any lines after the name of a first script.
Catalogue ==
  {LName_a, LEnd, LFadeIn, LDelay0, LPagesStart, LAPage, LPagesEnd,
   LCenterWindow, LCwText, LSpaceEnd}

InitAny ==
  \E k \in 0..MaxLines : \E f \in [1..k -> Catalogue] : Start(<<LName_a>> \o f)

\* Two scripts, each a name, a body and END.
BodyLines == {LFadeIn, LMenu15, LDelay0}

Scripts ==
  {<<n>> \o b \o <<LEnd>> :
     n \in {LName_a, LName_b}, b \in BoundedSeq(BodyLines, MaxLines - 2)}

InitBundle == \E s1 \in Scripts, s2 \in Scripts, t \in Tails : Start(s1 \o s2 \o t)

\* A script that opens a pages block.
PageLines == {LDelay1, LDelay2, LFadeIn, LAPage, LBlank}

InitPages ==
  \E f \in BoundedSeq(PageLines, MaxLines), e \in {<<>>, <<LPagesEnd, LEnd>>} :
    Start(<<LName_a, LPagesStart>> \o f \o e)

\* A script that opens a message box.
BoxLines == {LCwText, LSkLine, LFadeOut, LMenu, LBlank}

InitBox ==
  \E f \in BoundedSeq(BoxLines, MaxLines), e \in {<<>>, <<LEnd>>} :
    Start(<<LName_a, LCenterWindow>> \o f \o e)

\* CWTEXT with text, with blanks around the text, with a carriage return
\* behind blanks only, without text.
LCwTextTwoWords == Cmd(<<"CWTEXT", " ", "Hi", " ", "there">>)

LCwTextBlanks == Cmd(<<"CWTEXT", " ", " ", "Hi", " ", " ", "\r", "x">>)

LCwTextBlankOnly == Cmd(<<"CWTEXT", " ", " ", " ", "\r", "x">>)

LCwTextCr == Cmd(<<"CWTEXT", " ", "\r", "x">>)

LCwTextNone == Cmd(<<"CWTEXT">>)

CwTextLines ==
  {LCwText, LCwTextTwoWords, LCwTextBlanks, LCwTextBlankOnly, LCwTextCr, LCwTextNone}

\* The longest run of CWTEXT and SKLINE lines of InitCwText.
MaxTexts == 2

\* A script with a message box of up to MaxTexts lines and a command
\* behind it, with or without blanks in front of the command.
InitCwText ==
  \E f \in BoundedSeq(CwTextLines \cup {LSkLine}, MaxTexts),
     c \in {LFadeOut, <<" ", " ">> \o LFadeOut} :
    Start(<<LName_a, LCenterWindow>> \o f \o <<c, LEnd>>)

\* A pages block with a command of the script parser or of the message
\* box parser in it.
InitPagesOther ==
  \E f \in {<<>>, <<LFadeIn>>, <<LAPage>>, <<LAPage, LFadeIn>>},
     b \in {LMenu, LMenu15, LCenterWindow, LSkLine, LPagesStart} \cup CwTextLines :
    Start(<<LName_a, LPagesStart>> \o f \o <<b, LFadeOut, LPagesEnd, LEnd>>)

\* Decimal numerals as they are written in a source.
N0 == <<"0">>

N1 == <<"1">>

N2 == <<"2">>

N3 == <<"3">>

N5 == <<"5">>

N7 == <<"7">>

N8 == <<"8">>

N9 == <<"9">>

N10 == <<"1", "0">>

NMinus1 == <<"-", "1">>

\* INT_MAX and INT_MAX + 1, INT_MIN - 1.
NIntMax == <<"2", "1", "4", "7", "4", "8", "3", "6", "4", "7">>

NOver == <<"2", "1", "4", "7", "4", "8", "3", "6", "4", "8">>

NUnder == <<"-", "2", "1", "4", "7", "4", "8", "3", "6", "4", "9">>

\* Arguments, each after a space.
RECURSIVE Args(_)
Args(ts) == IF ts = <<>> THEN <<>> ELSE <<" ">> \o Head(ts) \o Args(Tail(ts))

\* The line of a command with its arguments.
CmdArgs(keyword, ts) == Cmd(<<keyword>> \o Args(ts))

DelayNumerals == {N1, N2, N10, NIntMax, NOver, N0, NMinus1, NUnder}

DelayLines == {CmdArgs("DELAY", <<t>>) : t \in DelayNumerals}

GetNamesNumerals == {N0, N3, N7, N8, N10, NMinus1, NOver, NUnder}

GetNamesLines == {CmdArgs("GETNAMES", <<t>>) : t \in GetNamesNumerals}

\* XYTEXT x y and its payload, after one space.
XYText(x, y, payload) == CmdArgs("XYTEXT", <<x, y>>) \o <<" ">> \o payload

LSprite1 == XYText(N5, N1, <<"<EF>", "1", "2", "3", "0", "7">>)

LSprite2 == XYText(N0, N0, <<"<EF>", "0", "4", "6", "1", "0">>)

LSprite3 == XYText(N10, N2, <<"<EF>", "1", "2", "3", "0", "7", "9">>)

LBigText1 == XYText(N0, N3, <<" ", " ", "<F7>", "Hello">>)

LBigText2 == XYText(N5, N1, <<"<F0>", "Hi">>)

LBigText3 == XYText(N1, N2, <<"ab", "<FF>", "X", "<F7>", "Y">>)

LBigText4 == XYText(N1, N1, <<"<EF>", "1", "<F0>", "Z">>)

XYTextLines ==
  {LSprite1, LSprite2, LSprite3, LBigText1, LBigText2, LBigText3, LBigText4}

\* XYTEXT 1 2 with plain text (blanks before, inside and after it, a
\* carriage return after or inside it, 0xEF not in front), without a
\* payload, and with 0xEF in front of too few bytes or of letters.
TextLines ==
  {XYText(N1, N2, <<"Hello">>), XYText(N1, N2, <<"Hi", " ", "there">>),
   XYText(N1, N2, <<" ", " ", "Hi">>), XYText(N1, N2, <<"Hi", " ", "\r">>),
   XYText(N1, N2, <<"Hi", "\r", "x">>), XYText(N1, N2, <<"x", "<EF>", "1", "2", "3">>),
   CmdArgs("XYTEXT", <<N1, N2>>), XYText(N1, N2, <<>>), XYText(N1, N2, <<"\r">>),
   XYText(N1, N2, <<"<EF>">>), XYText(N1, N2, <<"<EF>", "1", "2", "3">>),
   XYText(N1, N2, <<"<EF>", "1", "2", "3", "4">>),
   XYText(N1, N2, <<"<EF>", "a", "b", "c", "d", "e">>)}

\* Command lines with a keyword parseOneLineAction has no branch for.
NoOpLines == {LSetKeys, LEte, LHelpText, LNoKeyword}

\* BABBLEON, LOADRAW and GETPAL with and without what they ask for.
CheckedLines ==
  {CmdArgs("BABBLEON", <<N2>>), CmdArgs("BABBLEON", <<N0>>),
   CmdArgs("BABBLEON", <<NMinus1>>), CmdArgs("BABBLEON", <<>>),
   CmdArgs("LOADRAW", <<<<"pic">>>>), CmdArgs("LOADRAW", <<>>),
   Cmd(<<"LOADRAW", " ">>),
   CmdArgs("GETPAL", <<<<"pal">>>>), CmdArgs("GETPAL", <<>>)}

\* The numeral that is written for a number n >= 0.
RECURSIVE Numeral(_)
Numeral(n) ==
  LET d == <<"0", "1", "2", "3", "4", "5", "6", "7", "8", "9">>[(n % 10) + 1]
  IN  IF n < 10 THEN <<d>> ELSE Numeral(n \div 10) \o <<d>>

\* The most pairs written on a TOGGS line.
MaxPairs == 3

\* The pairs (yPos, id) written on TOGGS lines.
Pairs == {<<3, 1>>, <<9, 2>>, <<1, 7>>}

\* TOGGS lines: xPos, a count, and pairs that are as many as the count,
\* fewer or more; the same pair can come twice, in any order.
ToggsData ==
  {[xPos |-> 5, count |-> c, pairs |-> ps] :
     c \in 0..MaxPairs, ps \in BoundedSeq(Pairs, MaxPairs)}

RECURSIVE PairNumerals(_)
PairNumerals(ps) ==
  IF ps = <<>> THEN <<>>
  ELSE <<Numeral(Head(ps)[1]), Numeral(Head(ps)[2])>> \o PairNumerals(Tail(ps))

ToggsLine(t) ==
  CmdArgs("TOGGS", <<Numeral(t.xPos), Numeral(t.count)>> \o PairNumerals(t.pairs))

ToggsLines == {ToggsLine(t) : t \in ToggsData}

\* The last two sets: commands that read a number, with no number, a
\* letter or a sign alone in its place (and Z 5); TOGGS with a count below
\* 0, without count, without anything, with half a pair, with a letter in
\* the place of a number.
OneLiners ==
  DelayLines \cup GetNamesLines \cup XYTextLines \cup NoOpLines \cup ToggsLines
    \cup CheckedLines \cup TextLines
    \cup {CmdArgs(kw, a) : kw \in {"DELAY", "BABBLEON", "GETNAMES", "Z", "MENU"},
                           a \in {<<>>, <<<<"x">>>>, <<<<"-">>>>, <<<<"x">>, N5>>}}
    \cup {CmdArgs("Z", <<N5>>), CmdArgs("TOGGS", <<N5, NMinus1, N3, N1>>),
          CmdArgs("TOGGS", <<N5>>), CmdArgs("TOGGS", <<>>),
          CmdArgs("TOGGS", <<N5, N2, N9>>), CmdArgs("TOGGS", <<N5, N2, <<"x">>, N1>>),
          CmdArgs("TOGGS", <<<<"x">>, N2, N3, N1>>)}

\* A line between two actions, in a script and in a page of a script.
InitLine ==
  \E l \in OneLiners :
    \/ Start(<<LName_a, LFadeIn, l, LFadeOut, LEnd>>)
    \/ Start(<<LName_a, LPagesStart, LFadeIn, l, LFadeOut, LPagesEnd, LEnd>>)

LCenterWindow789 == CmdArgs("CENTERWINDOW", <<N7, N8, N9>>)

\* The sources a process loads one after the other: a script, END in a
\* pages block, a command that is not allowed, a keyword without a
\* branch, and a message box in a script of another name.
AgainSources ==
  {<<LName_a, LFadeIn, LEnd>>,
   <<LName_a, LPagesStart, LEnd, LPagesEnd, LEnd>>,
   <<LName_a, LCwText, LEnd>>,
   <<LName_a, LSetKeys, LFadeOut, LEnd>>,
   <<LName_b, LCenterWindow, LCwText, LFadeOut, LEnd>>}

\* The empty source, a script with the line "//END x", a message box
\* between two actions, and the sources that are loaded again.
InitSmall ==
  \/ Start(<<>>)
  \/ Start(<<LName_a, LEndX, LFadeIn, LEnd>>)
  \/ Start(<<LName_a, LFadeIn, LCenterWindow789, LCwText, LSkLine, LFadeOut, LEnd>>)
  \/ \E ls \in AgainSources : Start(ls)

\* Lines that are no command lines: a line of blanks and commentary.
LSpaces == <<" ">>

LRemark == <<"see", " ", "/", "/", "END">>

Commentary == {LBlank, LSpaces, LRemark}

\* Sources without commentary: a script with a pages block and a message
\* box, a message box closed by END, and a message box and a pages block
\* that run to the end of the source.
Outline ==
  <<LName_a, LFadeIn, LPagesStart, LDelay1, LAPage, LFadeOut, LPagesEnd,
    LCenterWindow, LCwText, LSkLine, LFadeOut, LEnd>>

OutlineBoxEnd == <<LName_a, LCenterWindow, LCwText, LEnd>>

OutlineBoxOpen == <<LName_a, LCenterWindow, LCwText>>

OutlinePagesOpen == <<LName_a, LPagesStart, LFadeIn>>

Outlines == {Outline, OutlineBoxEnd, OutlineBoxOpen, OutlinePagesOpen}

\* The most lines of commentary put into a source.
MaxRemarks == 2

\* The places inside the script of ls: after line p, from the name line
\* to the line before END.
Slots(ls) == 1..(IF ls[Len(ls)] = LEnd THEN Len(ls) - 1 ELSE Len(ls))

InsertAt(ls, p, l) == SubSeq(ls, 1, p) \o <<l>> \o SubSeq(ls, p + 1, Len(ls))

RECURSIVE Remarked(_, _)
Remarked(ls, n) ==
  IF n = 0 THEN {ls}
  ELSE LET R == Remarked(ls, n - 1)
       IN  R \cup UNION {{InsertAt(r, p, l) : p \in Slots(r), l \in Commentary} : r \in R}

\* A source with commentary inside its script.
InitRemarks == \E o \in Outlines : \E ls \in Remarked(o, MaxRemarks) : Start(ls)

\* The most slashes a line begins with.
MaxSlashes == 4

\* The text s after n slashes.
Slashed(n, s) == [i \in 1..n |-> "/"] \o s

\* A script and a pages block whose lines begin with one slash or more.
InitSlashes ==
  \/ \E n1, n2, n3 \in 1..MaxSlashes, t \in Tails :
       Start(<<LName_a, Slashed(n1, <<"FADEIN">>), Slashed(n2, <<"DELAY", " ", "2">>),
               Slashed(n3, <<"END">>)>> \o t)
  \/ \E n1, n2, n3, n4 \in 1..MaxSlashes :
       Start(<<LName_a, Slashed(n1, <<"PAGESSTART">>), Slashed(n2, <<"FADEIN">>),
               Slashed(n3, <<"PAGESEND">>), Slashed(n4, <<"END">>)>>)

\* The caller, after a call that returned or threw, calls loadScripts
\* again in the same process; what is static stays.
LoadScriptsAgain ==
  /\ pc \in {"returned", "thrown"}
  /\ lines \in AgainSources
  /\ Len(calls) < MaxCalls - 1
  /\ calls' = Append(calls, [source |-> scriptSource, returned |-> returned,
                             thrown |-> thrown])
  /\ \E ls \in AgainSources :
       /\ lines' = ls
       /\ NewCall(Join(ls))
  /\ UNCHANGED <<assertFailed, statics>>

Next ==
  \/ LoadScriptsLoop
  \/ LoadScriptsReturn
  \/ ParseScriptLine
  \/ ParsePagesLine
  \/ ParseMessageBoxLine
  \/ LoadScriptsAgain

Init ==
  \/ InitSmall \/ InitAny \/ InitBundle \/ InitPages \/ InitBox \/ InitLine
  \/ InitRemarks \/ InitSlashes
  \/ InitCwText \/ InitPagesOther

Spec == Init /\ [][Next]_vars

\* loadScripts is running one of its loops.
Running ==
  pc \in {"loadScripts", "parseScript", "parsePagesDefinition",
          "parseMessageBoxTextDefinition"}

-----------------------------------------------------------------------------
(* What the claims speak of: the lines of the source and what each is     *)
(* to compile to.                                                          *)

\* The position of the first symbol of line k, and the position after
\* line k and its line feed.
RECURSIVE StartOf(_)
StartOf(k) == IF k <= 1 THEN 1 ELSE StartOf(k - 1) + Len(lines[k - 1]) + 1

AfterLine(k) == IF k >= Len(lines) THEN Len(scriptSource) + 1 ELSE StartOf(k + 1)

\* The number of lines the read position has passed.
LinesRead ==
  LET S == {k \in 1..Len(lines) : AfterLine(k) <= sourceStream.pos}
  IN  IF S = {} THEN 0 ELSE CHOOSE k \in S : \A j \in S : k >= j

\* The read position is at the start of line k.
AtLine(k) == k \in 1..Len(lines) /\ sourceStream.pos = StartOf(k)

\* The actions each command line of the sources stands for.
Expected(line) ==
  CASE line = LFadeIn -> <<FadeIn>>
    [] line = LFadeOut -> <<FadeOut>>
    [] line = LDelay1 -> <<[type |-> "Delay", amount |-> 1]>>
    [] line = LDelay2 -> <<[type |-> "Delay", amount |-> 2]>>
    [] line = LMenu ->
         <<[type |-> "ConfigurePersistentMenuSelection", slot |-> 2],
           [type |-> "ScheduleFadeInBeforeNextWaitState"]>>
    [] line = LMenu15 ->
         <<[type |-> "ConfigurePersistentMenuSelection", slot |-> 15],
           [type |-> "ScheduleFadeInBeforeNextWaitState"]>>

ActionLines == {LFadeIn, LFadeOut, LDelay1, LDelay2, LMenu, LMenu15}

RECURSIVE ExpectedScript(_)
ExpectedScript(body) ==
  IF body = <<>> THEN <<>> ELSE Expected(Head(body)) \o ExpectedScript(Tail(body))

NameLines == {LName_a, LName_b}

IsEnd(line) == line = LEnd

\* A source made of scripts, each a name line, a body of action lines and
\* an END line (a line feed may close the source).
RECURSIVE WellFormed(_)
WellFormed(ls) ==
  \/ ls \in Tails
  \/ LET e == First({ix \in 1..Len(ls) : IsEnd(ls[ix])}, Len(ls) + 1)
     IN  /\ e <= Len(ls)
         /\ ls[1] \in NameLines
         /\ \A i \in 2..e - 1 : ls[i] \in ActionLines
         /\ WellFormed(SubSeq(ls, e + 1, Len(ls)))

\* Its scripts: the name and the body of each.
RECURSIVE ScriptsOf(_)
ScriptsOf(ls) ==
  IF ls \in Tails THEN <<>>
  ELSE LET e == First({ix \in 1..Len(ls) : IsEnd(ls[ix])}, Len(ls) + 1)
       IN  <<[name |-> Str(ls[1]), body |-> SubSeq(ls, 2, e - 1)]>>
             \o ScriptsOf(SubSeq(ls, e + 1, Len(ls)))

DistinctNames(ss) == \A i, j \in 1..Len(ss) : ss[i].name = ss[j].name => i = j

-----------------------------------------------------------------------------
(* C1 *)

\* C1: for a source made of N scripts with distinct names, each a name, a
\* body of command lines and "//END", loadScripts does not fail, and the
\* bundle it returns has exactly N entries, the one under each name being
\* the actions of that script's own body, in source order.
C1BundleOfScripts ==
  LET ss == ScriptsOf(lines)
  IN  (WellFormed(lines) /\ DistinctNames(ss)) =>
        /\ pc \notin {"thrown", "aborted"}
        /\ pc = "returned" =>
             /\ Cardinality(DOMAIN returned[1]) = Len(ss)
             /\ \A i \in 1..Len(ss) :
                  /\ ss[i].name \in DOMAIN returned[1]
                  /\ returned[1][ss[i].name] = ExpectedScript(ss[i].body)

\* Two scripts with different non-empty bodies have been loaded.
C1Witness ==
  /\ pc = "returned"
  /\ WellFormed(lines)
  /\ LET ss == ScriptsOf(lines)
     IN  /\ Len(ss) = 2
         /\ DistinctNames(ss)
         /\ Len(ss[1].body) = 2
         /\ ss[2].body # <<>>
         /\ ss[1].body # ss[2].body
         /\ ss[1].body[1] # ss[1].body[2]
         /\ returned[1][ss[1].name] # returned[1][ss[2].name]

-----------------------------------------------------------------------------
(* C2 *)

OpenScript ==
  pc \in {"parseScript", "parsePagesDefinition", "parseMessageBoxTextDefinition"}

\* Every symbol of the source has been read.
Exhausted == sourceStream.pos > Len(scriptSource)

\* C2 as claimed: if the input is exhausted before "END" is read for an
\* opened script, the error thrown is the missing end marker 'END'.
C2AsClaimed ==
  [][(OpenScript /\ Exhausted /\ pc' = "thrown") =>
       thrown' = <<"Missing end marker 'END' in Duke Script file">>]_vars

\* C2, amended: if the input is exhausted before "END" is read for an
\* opened script, loadScripts returns no bundle and fails with a missing
\* end marker error, which names 'END', or 'PAGESEND' when the input is
\* exhausted inside a PAGESSTART block (a message box block that runs to
\* the end of the input ends first, and the script parser then fails).
C2MissingEnd ==
  [][(OpenScript /\ Exhausted) =>
       /\ returned' = <<>>
       /\ pc = "parseScript" =>
            /\ pc' = "thrown"
            /\ thrown' = <<"Missing end marker 'END' in Duke Script file">>
       /\ pc = "parsePagesDefinition" =>
            /\ pc' = "thrown"
            /\ thrown' = <<"Missing end marker 'PAGESEND' in Duke Script file">>
       /\ pc = "parseMessageBoxTextDefinition" =>
            /\ pc' = "parseScript"
            /\ Exhausted'
            /\ thrown' = <<>>]_vars

\* A script was opened, had lines compiled, and the input ended without END.
C2Witness ==
  /\ pc = "thrown"
  /\ thrown = <<"Missing end marker 'END' in Duke Script file">>
  /\ Exhausted
  /\ script # <<>>
  /\ returned = <<>>

-----------------------------------------------------------------------------
(* C3 *)

\* What stands on a line where a number is asked for and none is there:
\* nothing, a letter, a sign alone, a letter in front of a number.
NoNumber == {<<>>, <<<<"x">>>>, <<<<"-">>>>, <<<<"x">>, N5>>}

Unnumbered(kw) == {CmdArgs(kw, a) : a \in NoNumber}

\* The lines of the sources that raise each error.
Offenders ==
  ("Invalid DELAY command in Duke Script file" :>
     {LDelay0, CmdArgs("DELAY", <<NMinus1>>), CmdArgs("DELAY", <<NUnder>>)}
       \cup Unnumbered("DELAY"))
  @@ ("The command APAGE is not allowed in this context" :> {LAPage})
  @@ ("The command PAGESEND is not allowed in this context" :>
        {Slashed(n, <<"PAGESEND">>) : n \in 2..MaxSlashes})
  @@ ("The command CWTEXT is not allowed in this context" :> CwTextLines)
  @@ ("The command SKLINE is not allowed in this context" :> {LSkLine})
  @@ ("The command MENU is not allowed in this context" :>
        {LMenu, LMenu15} \cup Unnumbered("MENU"))
  @@ ("The command PAGESSTART is not allowed in this context" :> {LPagesStart})
  @@ ("The command CENTERWINDOW is not allowed in this context" :> {LCenterWindow})

\* C3: once an error is raised, loadScripts has ended with it and returns
\* no bundle, whatever scripts were parsed before; an invalid parameter or
\* a disallowed command stops the parsing right after the line that raised
\* it: no later line is consumed.
C3FailFast ==
  /\ thrown # <<>> => (pc = "thrown" /\ returned = <<>>)
  /\ returned # <<>> => (pc = "returned" /\ thrown = <<>>)
  /\ (pc = "thrown" /\ thrown[1] \in DOMAIN Offenders) =>
       \E k \in 1..Len(lines) :
         /\ lines[k] \in Offenders[thrown[1]]
         /\ sourceStream.pos = AfterLine(k)

\* The second script of a source fails after the first was parsed, with
\* lines left unread.
C3Witness ==
  /\ pc = "thrown"
  /\ thrown = <<"Invalid DELAY command in Duke Script file">>
  /\ DOMAIN bundle = {LName_a[1]}
  /\ bundle[LName_a[1]] # <<>>
  /\ ~Exhausted
  /\ returned = <<>>

-----------------------------------------------------------------------------
(* C4 *)

\* Lines that are no command lines.
IgnoredLines == Commentary \cup {LName_a, LName_b}

\* Where the command of line t starts: behind the white space in front
\* of it.
CommandStart(t) ==
  StartOf(t) + First({i \in 1..Len(lines[t]) : ~IsSpace(lines[t][i])}, Len(lines[t]) + 1) - 1

\* A source that opens a message box in its second line.
BoxShape == Len(lines) >= 2 /\ lines[1] = LName_a /\ lines[2] = LCenterWindow

NoBoxText(line) == line \notin CwTextLines \cup {LSkLine} \cup IgnoredLines

\* The text of each CWTEXT line up to its carriage return, without the
\* blanks behind it ("" where nothing is left).
MessageTexts ==
  (LCwText :> "Hi") @@ (LCwTextTwoWords :> "Hi there") @@ (LCwTextBlanks :> " Hi")
  @@ (LCwTextBlankOnly :> "") @@ (LCwTextCr :> "") @@ (LCwTextNone :> "")

\* The first command line after CENTERWINDOW that is neither CWTEXT nor
\* SKLINE (Len(lines)+1 if there is none).
BoxEnd == First({ix \in 3..Len(lines) : NoBoxText(lines[ix])}, Len(lines) + 1)

\* The message lines of the lines ls.
RECURSIVE BoxText(_)
BoxText(ls) ==
  IF ls = <<>> THEN <<>>
  ELSE (IF Head(ls) \in CwTextLines THEN <<MessageTexts[Head(ls)]>>
        ELSE IF Head(ls) = LSkLine THEN <<"">> ELSE <<>>) \o BoxText(Tail(ls))

TheBox ==
  [type |-> "ShowMessageBox", yPos |-> 1, width |-> 3, height |-> 2,
   lines |-> BoxText(SubSeq(lines, 3, BoxEnd - 1))]

\* C4: the first command line after CENTERWINDOW that is neither CWTEXT
\* nor SKLINE ends the message box block; the block parser does not read
\* beyond it, and once it has been read the script is the ShowMessageBox
\* immediately followed by that line's own actions, once (for END: the
\* script stored is the ShowMessageBox alone).
C4BlockEndProcessedOnce ==
  (BoxShape /\ BoxEnd <= Len(lines)) =>
    /\ (pc = "parseMessageBoxTextDefinition" /\ script = <<>> /\ bundle = <<>>) =>
         sourceStream.pos <= CommandStart(BoxEnd)
    /\ (lines[BoxEnd] \in ActionLines /\ sourceStream.pos = AfterLine(BoxEnd)) =>
         /\ pc \in {"parseScript", "thrown"}
         /\ script = <<TheBox>> \o Expected(lines[BoxEnd])
    /\ (lines[BoxEnd] = LEnd /\ sourceStream.pos = AfterLine(BoxEnd)) =>
         /\ pc \in {"loadScripts", "returned"}
         /\ bundle = (LName_a[1] :> <<TheBox>>)

\* CWTEXT Hi, SKLINE, FADEOUT, END has been loaded.
C4Witness ==
  /\ BoxShape
  /\ SubSeq(lines, 3, Len(lines)) = <<LCwText, LSkLine, LFadeOut, LEnd>>
  /\ pc = "returned"
  /\ returned[1][LName_a[1]] =
       <<[type |-> "ShowMessageBox", yPos |-> 1, width |-> 3, height |-> 2,
          lines |-> <<"Hi", "">>], FadeOut>>

-----------------------------------------------------------------------------
(* C5 *)

\* A source that opens a pages block in its second line.
PagesShape == Len(lines) >= 2 /\ lines[1] = LName_a /\ lines[2] = LPagesStart

\* The first PAGESEND line of the block (Len(lines)+1 if there is none).
IsPagesEnd(line) == line = LPagesEnd

PagesEnd == First({ix \in 3..Len(lines) : IsPagesEnd(lines[ix])}, Len(lines) + 1)

\* Lines of a block that compile to actions, open a page or are ignored.
PageOK(ls) ==
  \A i \in 1..Len(ls) : ls[i] \in {LDelay1, LDelay2, LFadeIn, LFadeOut, LAPage} \cup IgnoredLines

\* The pages of the lines ls of a block.
RECURSIVE PagesOf(_)
PagesOf(ls) ==
  IF ls = <<>> THEN << <<>> >>
  ELSE LET before == PagesOf(SubSeq(ls, 1, Len(ls) - 1))
           last == ls[Len(ls)]
       IN  IF last = LAPage THEN before \o << <<>> >>
           ELSE IF last \in IgnoredLines THEN before
           ELSE SubSeq(before, 1, Len(before) - 1)
                  \o <<before[Len(before)] \o Expected(last)>>

APages(ls) == Cardinality({i \in 1..Len(ls) : ls[i] = LAPage})

\* C5: in a PAGESSTART block, the pages are 1 + the number of APAGE lines
\* read, and each action is on the page opened by the last APAGE before it
\* (the first page if there is none), in source order; at PAGESEND the
\* script gets the one PagesDefinition with these pages.
C5Pages ==
  PagesShape =>
    /\ LET block == SubSeq(lines, 3, LinesRead)
       IN  (pc = "parsePagesDefinition" /\ PageOK(block)) =>
             /\ pages = PagesOf(block)
             /\ Len(pages) = 1 + APages(block)
    /\ LET block == SubSeq(lines, 3, PagesEnd - 1)
       IN  (PagesEnd <= Len(lines) /\ PageOK(block)
            /\ sourceStream.pos = AfterLine(PagesEnd)) =>
             /\ pc \in {"parseScript", "thrown"}
             /\ script = <<[type |-> "PagesDefinition", pages |-> PagesOf(block)]>>
             /\ Len(script[1].pages) = 1 + APages(block)

\* DELAY 1, APAGE, DELAY 2 has been loaded as two pages.
C5Witness ==
  /\ lines = <<LName_a, LPagesStart, LDelay1, LAPage, LDelay2, LPagesEnd, LEnd>>
  /\ pc = "returned"
  /\ returned[1][LName_a[1]] =
       <<[type |-> "PagesDefinition",
          pages |-> << <<[type |-> "Delay", amount |-> 1]>>,
                       <<[type |-> "Delay", amount |-> 2]>> >>]>>

-----------------------------------------------------------------------------
(* C6 *)

\* The PagesDefinition actions of a script.
PagesDefinitions(sc) ==
  {sc[i] : i \in {j \in 1..Len(sc) : sc[j].type = "PagesDefinition"}}

\* The scripts compiled so far: the one in progress, the stored ones, the
\* returned ones.
CompiledScripts ==
  {script} \cup {bundle[n] : n \in DOMAIN bundle}
    \cup (IF returned = <<>> THEN {}
          ELSE {returned[1][n] : n \in DOMAIN returned[1]})

NoAPage == \A i \in 1..Len(lines) : lines[i] # LAPage

\* C6: the pages of a PAGESSTART block are never an empty list, in the
\* block parser and in every PagesDefinition of every script; a block
\* without an APAGE line has exactly one page.
C6AtLeastOnePage ==
  /\ pc = "parsePagesDefinition" => Len(pages) >= 1
  /\ \A sc \in CompiledScripts : \A d \in PagesDefinitions(sc) : Len(d.pages) >= 1
  /\ NoAPage =>
       /\ pc = "parsePagesDefinition" => Len(pages) = 1
       /\ \A sc \in CompiledScripts : \A d \in PagesDefinitions(sc) : Len(d.pages) = 1

\* A block with no line between PAGESSTART and PAGESEND has been loaded.
C6Witness ==
  /\ lines = <<LName_a, LPagesStart, LPagesEnd, LEnd>>
  /\ pc = "returned"
  /\ returned[1][LName_a[1]] = <<[type |-> "PagesDefinition", pages |-> << <<>> >>]>>

-----------------------------------------------------------------------------
(* C7 *)

\* The error each block-only line raises.
BlockOnly ==
  (LAPage :> "The command APAGE is not allowed in this context")
  @@ (LPagesEnd :> "The command PAGESEND is not allowed in this context")
  @@ (LCwText :> "The command CWTEXT is not allowed in this context")
  @@ (LSkLine :> "The command SKLINE is not allowed in this context")

\* C7: a line with the keyword APAGE, PAGESEND, CWTEXT or SKLINE read by
\* the script parser (outside the blocks) raises the error that names the
\* keyword, and nothing is returned.
C7BlockOnlyAtTopLevel ==
  [][\A k \in 1..Len(lines) :
       (pc = "parseScript" /\ AtLine(k) /\ lines[k] \in DOMAIN BlockOnly) =>
         /\ pc' = "thrown"
         /\ thrown' = <<BlockOnly[lines[k]]>>
         /\ returned' = <<>>]_vars

\* A CWTEXT line after the end of a message box block has raised the error.
C7Witness ==
  /\ pc = "thrown"
  /\ thrown = <<"The command CWTEXT is not allowed in this context">>
  /\ Len(script) >= 2
  /\ script[1].type = "ShowMessageBox"

-----------------------------------------------------------------------------
(* C8 *)

\* The first script of ss that has the name of ss[i].
FirstOf(ss, i) ==
  CHOOSE j \in 1..i :
    /\ ss[j].name = ss[i].name
    /\ \A h \in 1..(j - 1) : ss[h].name # ss[i].name

\* The last script of ss that has the name of ss[i].
LastOf(ss, i) ==
  CHOOSE j \in i..Len(ss) :
    /\ ss[j].name = ss[i].name
    /\ \A h \in (j + 1)..Len(ss) : ss[h].name # ss[i].name

SameName ==
  LET ss == ScriptsOf(lines)
  IN  /\ WellFormed(lines)
      /\ \E i, j \in 1..Len(ss) : i # j /\ ss[i].name = ss[j].name

\* C8 as claimed: a name defined more than once is bound to its last
\* definition.
C8AsClaimed ==
  (SameName /\ pc = "returned") =>
    LET ss == ScriptsOf(lines)
    IN  \A i \in 1..Len(ss) :
          returned[1][ss[i].name] = ExpectedScript(ss[LastOf(ss, i)].body)

\* C8, amended: a name defined more than once is bound to its first
\* definition; the later ones are parsed and dropped.
C8FirstWins ==
  (SameName /\ pc = "returned") =>
    LET ss == ScriptsOf(lines)
    IN  /\ DOMAIN returned[1] = {ss[i].name : i \in 1..Len(ss)}
        /\ \A i \in 1..Len(ss) :
             returned[1][ss[i].name] = ExpectedScript(ss[FirstOf(ss, i)].body)

\* Two scripts of one name and different actions have been loaded.
C8Witness ==
  /\ SameName
  /\ pc = "returned"
  /\ LET ss == ScriptsOf(lines)
     IN  /\ Len(ss) = 2
         /\ ExpectedScript(ss[1].body) # ExpectedScript(ss[2].body)
         /\ ExpectedScript(ss[2].body) # <<>>

-----------------------------------------------------------------------------
(* C9 *)

\* C9 as claimed: the keyword END never reaches parseOneLineAction, so
\* its assertion command != "END" never fails.
C9EndNeverCompiled == ~assertFailed

-----------------------------------------------------------------------------
(* C10 *)

\* C10: a MENU line read by the script parser appends to the script
\* ConfigurePersistentMenuSelection with the slot of the line and then
\* ScheduleFadeInBeforeNextWaitState, and the parsing goes on.
C10Menu ==
  [][\A k \in 1..Len(lines) :
       (pc = "parseScript" /\ AtLine(k) /\ lines[k] \in {LMenu, LMenu15}) =>
         /\ pc' = "parseScript"
         /\ Len(script') = Len(script) + 2
         /\ SubSeq(script', 1, Len(script)) = script
         /\ script'[Len(script) + 1] =
              [type |-> "ConfigurePersistentMenuSelection",
               slot |-> IF lines[k] = LMenu THEN 2 ELSE 15]
         /\ script'[Len(script) + 2] = [type |-> "ScheduleFadeInBeforeNextWaitState"]
         /\ thrown' = <<>>]_vars

\* A MENU 15 line after a FADEIN line has been compiled.
C10Witness ==
  /\ pc = "parseScript"
  /\ script = <<[type |-> "FadeIn"],
                [type |-> "ConfigurePersistentMenuSelection", slot |-> 15],
                [type |-> "ScheduleFadeInBeforeNextWaitState"]>>

-----------------------------------------------------------------------------
(* One-line commands: what a step of a parser makes of the line it reads *)

\* The script parser or the pages parser is about to read line k.
Reading(k) ==
  /\ pc \in {"parseScript", "parsePagesDefinition"}
  /\ AtLine(k)

\* The step keeps the parser going and what was compiled before.
Kept ==
  /\ pc' = pc
  /\ thrown' = <<>>
  /\ IF pc = "parseScript"
     THEN /\ pages' = pages
          /\ Len(script') >= Len(script)
          /\ SubSeq(script', 1, Len(script)) = script
     ELSE /\ script' = script
          /\ Len(pages') = Len(pages)
          /\ \A i \in 1..(Len(pages) - 1) : pages'[i] = pages[i]
          /\ Len(pages'[Len(pages)]) >= Len(pages[Len(pages)])
          /\ SubSeq(pages'[Len(pages)], 1, Len(pages[Len(pages)])) = pages[Len(pages)]

\* The actions the step appends (to the script, or to the current page).
NewActions ==
  IF pc = "parseScript" THEN SubSeq(script', Len(script) + 1, Len(script'))
  ELSE SubSeq(pages'[Len(pages)], Len(pages[Len(pages)]) + 1, Len(pages'[Len(pages)]))

\* The step raises the error msg and compiles nothing.
Fails(msg) ==
  /\ pc' = "thrown"
  /\ thrown' = <<msg>>
  /\ script' = script
  /\ pages' = pages
  /\ returned' = <<>>

\* The arguments of a command line: what follows the keyword and a space.
ArgsOf(line) == SubSeq(line, 5, Len(line))

Positive(t) == t[1] \in {"1", "2", "3", "4", "5", "6", "7", "8", "9"}

-----------------------------------------------------------------------------
(* C11 *)

\* C11 as claimed: for every positive integer n, DELAY n compiles to
\* Delay{n} (the amount of the action is the number written on the line);
\* DELAY 0 and DELAY with a negative amount raise the invalid DELAY
\* error and compile nothing.
C11Delay ==
  [][\A k \in 1..Len(lines) :
       (Reading(k) /\ lines[k] \in DelayLines) =>
         IF Positive(ArgsOf(lines[k]))
         THEN /\ Kept
              /\ Len(NewActions) = 1
              /\ NewActions[1].type = "Delay"
              /\ Numeral(NewActions[1].amount) = ArgsOf(lines[k])
         ELSE Fails("Invalid DELAY command in Duke Script file")]_vars

-----------------------------------------------------------------------------
(* C12 *)

\* The numerals of the slots 0 to 7.
IsSlot(t) == Len(t) = 1 /\ t[1] \in {"0", "1", "2", "3", "4", "5", "6", "7"}

\* C12: GETNAMES s compiles to ShowSaveSlots{s} exactly when 0 <= s <= 7;
\* with s >= 8 or s < 0 the line raises the invalid GETNAMES error and
\* compiles nothing.
C12GetNames ==
  [][\A k \in 1..Len(lines) :
       (Reading(k) /\ lines[k] \in GetNamesLines) =>
         IF IsSlot(ArgsOf(lines[k]))
         THEN /\ Kept
              /\ Len(NewActions) = 1
              /\ NewActions[1].type = "ShowSaveSlots"
              /\ Numeral(NewActions[1].slot) = ArgsOf(lines[k])
         ELSE Fails("Invalid GETNAMES command in Duke Script file")]_vars

\* GETNAMES 7 has been compiled into a page, after FADEIN.
C12Witness ==
  /\ pc = "parsePagesDefinition"
  /\ pages = << <<[type |-> "FadeIn"], [type |-> "ShowSaveSlots", slot |-> 7]>> >>

-----------------------------------------------------------------------------
(* C13 *)

\* The sprite lines: coordinates, actor id and frame as written.
Sprites ==
  (LSprite1 :> [x |-> 5, y |-> 1, actorId |-> 123, frame |-> 7])
  @@ (LSprite2 :> [x |-> 0, y |-> 0, actorId |-> 46, frame |-> 10])
  @@ (LSprite3 :> [x |-> 10, y |-> 2, actorId |-> 123, frame |-> 7])

\* C13: XYTEXT x y with a payload that has no byte >= 0xF0 and is 0xEF,
\* a 3-digit actor id and a 2-digit frame compiles to
\* DrawSprite{x + 2, y + 1, actor id, frame}.
C13Sprite ==
  [][\A k \in 1..Len(lines) :
       (Reading(k) /\ lines[k] \in DOMAIN Sprites) =>
         LET sp == Sprites[lines[k]]
         IN  /\ Kept
             /\ NewActions = <<[type |-> "DrawSprite", x |-> sp.x + 2, y |-> sp.y + 1,
                                actorId |-> sp.actorId, frame |-> sp.frame]>>]_vars

\* XYTEXT 5 1 with 0xEF "12307" has been compiled, after FADEIN.
C13Witness ==
  /\ pc = "parseScript"
  /\ script = <<[type |-> "FadeIn"],
                [type |-> "DrawSprite", x |-> 7, y |-> 2, actorId |-> 123, frame |-> 7]>>

-----------------------------------------------------------------------------
(* C14 *)

\* The big text lines: coordinates as written, the offset of the first
\* byte >= 0xF0 in the payload, that byte, and the bytes after it.
BigTexts ==
  (LBigText1 :> [x |-> 0, y |-> 3, k |-> 2, marker |-> 247, text |-> "Hello"])
  @@ (LBigText2 :> [x |-> 5, y |-> 1, k |-> 0, marker |-> 240, text |-> "Hi"])
  @@ (LBigText3 :> [x |-> 1, y |-> 2, k |-> 2, marker |-> 255, text |-> "X<F7>Y"])
  @@ (LBigText4 :> [x |-> 1, y |-> 1, k |-> 2, marker |-> 240, text |-> "Z"])

\* C14: XYTEXT x y with a payload whose first byte >= 0xF0 is at offset k
\* compiles to DrawBigText{x + k, y, marker - 0xF0, the bytes after the
\* marker}: the k bytes before the marker only shift x.
C14BigText ==
  [][\A k \in 1..Len(lines) :
       (Reading(k) /\ lines[k] \in DOMAIN BigTexts) =>
         LET bt == BigTexts[lines[k]]
         IN  /\ Kept
             /\ NewActions = <<[type |-> "DrawBigText", x |-> bt.x + bt.k, y |-> bt.y,
                                colorIndex |-> bt.marker - 240, text |-> bt.text]>>]_vars

\* XYTEXT 0 3 with two spaces, 0xF7 and "Hello" has been compiled.
C14Witness ==
  /\ pc = "parseScript"
  /\ script = <<[type |-> "FadeIn"],
                [type |-> "DrawBigText", x |-> 2, y |-> 3, colorIndex |-> 7,
                 text |-> "Hello"]>>

-----------------------------------------------------------------------------
(* C15 *)

\* The CENTERWINDOW lines: the three numbers as written.
Windows ==
  (LCenterWindow :> [first |-> 1, second |-> 2, third |-> 3])
  @@ (LCenterWindow789 :> [first |-> 7, second |-> 8, third |-> 9])

\* C15: CENTERWINDOW reads y, height and width in this order: the second
\* number of the line is the height and the third the width; when the
\* message box block ends, ShowMessageBox{yPos = y, width, height, lines}
\* with the lines of the block is appended to the script.
C15CenterWindow ==
  [][/\ \A k \in 1..Len(lines) :
          (pc = "parseScript" /\ AtLine(k) /\ lines[k] \in DOMAIN Windows) =>
            LET w == Windows[lines[k]]
            IN  /\ pc' = "parseMessageBoxTextDefinition"
                /\ box' = [y |-> w.first, height |-> w.second, width |-> w.third]
                /\ messageLines' = <<>>
                /\ script' = script
     /\ (pc = "parseMessageBoxTextDefinition" /\ pc' = "parseScript") =>
          script' = Append(script, [type |-> "ShowMessageBox", yPos |-> box.y,
                                    width |-> box.width, height |-> box.height,
                                    lines |-> messageLines])]_vars

\* CENTERWINDOW 7 8 9 with two message lines has been loaded.
C15Witness ==
  /\ pc = "returned"
  /\ returned[1] =
       (LName_a[1] :>
          <<[type |-> "FadeIn"],
            [type |-> "ShowMessageBox", yPos |-> 7, width |-> 9, height |-> 8,
             lines |-> <<"Hi", "">>],
            [type |-> "FadeOut"]>>)

-----------------------------------------------------------------------------
(* C16 *)

\* loadScripts has ended: it returned, it threw, or the process was
\* aborted inside it.
Ended == pc \in {"returned", "thrown", "aborted"}

\* The most iterations a call on this source runs: every line is read at
\* most twice (once more after a rewind of the message box parser), and
\* loadScripts ends with an iteration that reads no line and its return.
StepBound == 2 * Len(lines) + 2

\* C16: for every source, loadScripts ends: the number of iterations of
\* its loops is bounded by the size of the source (no line is read more
\* than twice, and the loop over the scripts consumes input in every
\* iteration), and as long as it has not returned, thrown or been aborted
\* it is in one of its loops, short of that bound.
C16Terminates ==
  /\ steps <= StepBound
  /\ StepBound < MaxSteps
  /\ Ended \/ Running
  /\ Running => steps < StepBound

\* loadScripts returned after its message box parser had rewound the
\* stream: a line was read twice.
C16Witness ==
  /\ pc = "returned"
  /\ steps >= Len(lines) + 3
  /\ \E name \in DOMAIN returned[1] :
       \E i \in 1..Len(returned[1][name]) :
         returned[1][name][i].type = "ShowMessageBox"

-----------------------------------------------------------------------------
(* C17 *)

\* Line k has a keyword that is neither in the dispatch of
\* parseOneLineAction nor in its list of block commands, and is not the
\* end marker of the block being parsed: SETKEYS, ETE, HELPTEXT, no
\* keyword at all, and END in "// END", in "//END x" and in a pages block.
Unlisted(k) ==
  \/ lines[k] \in NoOpLines \cup {LEndX, LSpaceEnd}
  \/ pc = "parsePagesDefinition" /\ lines[k] = LEnd

\* The step accepts the line and compiles nothing.
NoOp ==
  /\ Kept
  /\ NewActions = <<>>

\* C17 as claimed: a command line whose keyword is neither dispatched nor
\* one of APAGE, CENTERWINDOW, CWTEXT, MENU, PAGESEND, PAGESSTART, SKLINE
\* is accepted without error and appends no action, in a script body and
\* in a pages block; what was compiled before it stays.
C17AsClaimed ==
  [][\A k \in 1..Len(lines) : (Reading(k) /\ Unlisted(k)) => NoOp]_vars

\* C17, for every such keyword but END: the line is accepted without
\* error and appends no action, in a script body and in a pages block.
C17UnlistedButEnd ==
  [][\A k \in 1..Len(lines) : (Reading(k) /\ lines[k] \in NoOpLines) => NoOp]_vars

\* A page was compiled around a line without a keyword: the actions
\* before and after it, and nothing for the line.
C17Witness ==
  /\ pc = "returned"
  /\ Len(lines) = 7
  /\ lines[4] = LNoKeyword
  /\ returned[1] =
       (LName_a[1] :> <<[type |-> "PagesDefinition",
                        pages |-> << <<[type |-> "FadeIn"], [type |-> "FadeOut"]>> >>]>>)

-----------------------------------------------------------------------------
(* C18 *)

NotCommentary(line) == line \notin Commentary

\* The source without its lines of commentary.
Stripped == SelectSeq(lines, NotCommentary)

\* What loadScripts makes of the sources without commentary.
Compiled(ls) ==
  CASE ls = Outline ->
         [returned |->
            <<LName_a[1] :>
                <<FadeIn,
                  [type |-> "PagesDefinition",
                   pages |-> << <<[type |-> "Delay", amount |-> 1]>>, <<FadeOut>> >>],
                  [type |-> "ShowMessageBox", yPos |-> 1, width |-> 3, height |-> 2,
                   lines |-> <<"Hi", "">>],
                  FadeOut>> >>,
          thrown |-> <<>>]
    [] ls = OutlineBoxEnd ->
         [returned |->
            <<LName_a[1] :>
                <<[type |-> "ShowMessageBox", yPos |-> 1, width |-> 3, height |-> 2,
                   lines |-> <<"Hi">>]>> >>,
          thrown |-> <<>>]
    [] ls = OutlineBoxOpen ->
         [returned |-> <<>>,
          thrown |-> <<"Missing end marker 'END' in Duke Script file">>]
    [] ls = OutlinePagesOpen ->
         [returned |-> <<>>,
          thrown |-> <<"Missing end marker 'PAGESEND' in Duke Script file">>]

\* One of the three parsers of blocks is about to read line k (an empty
\* line k after the last line feed of the source is no line to read).
ReadingBlock(k) ==
  /\ pc \in {"parseScript", "parsePagesDefinition", "parseMessageBoxTextDefinition"}
  /\ AtLine(k)
  /\ StartOf(k) <= Len(scriptSource)

\* C18: a line that does not begin with "//" after trimming, in a script
\* body, a pages block or a message box block, is read and nothing else
\* happens: no action, no message line, no error, and the parser stays
\* where it is. The bundle or the error loadScripts ends with is that of
\* the source without such lines: putting up to MaxRemarks of them
\* anywhere into the scripts of Outlines changes nothing.
C18CommentaryIgnored ==
  [][/\ \A k \in 1..Len(lines) :
          (ReadingBlock(k) /\ lines[k] \in Commentary \cup IgnoredLines) =>
            /\ sourceStream'.pos = AfterLine(k)
            /\ UNCHANGED <<pc, bundle, scriptName, script, pages, box, messageLines,
                           startOfLine, returned, thrown, assertFailed>>
     /\ (Stripped \in Outlines /\ pc' \in {"returned", "thrown", "aborted"}) =>
          /\ pc' # "aborted"
          /\ returned' = Compiled(Stripped).returned
          /\ thrown' = Compiled(Stripped).thrown]_vars

\* Outline has been loaded with a blank line in its pages block and
\* commentary between the last line of its message box and the command
\* that ends the box.
C18Witness ==
  /\ pc = "returned"
  /\ lines = InsertAt(InsertAt(Outline, 10, LRemark), 4, LBlank)

-----------------------------------------------------------------------------
(* C19 *)

\* The number of slashes a line begins with, and the line written with
\* two slashes.
Slashes(line) == First({ix \in 1..Len(line) : line[ix] # "/"}, Len(line) + 1) - 1

TwoSlashes(line) == Cmd(SubSeq(line, Slashes(line) + 1, Len(line)))

SingleSlash(line) == Slashes(line) = 1

\* The source with two slashes in front of every line that has more, and
\* without the lines that have one.
RECURSIVE Normal(_)
Normal(ls) ==
  IF ls = <<>> THEN <<>>
  ELSE IF SingleSlash(Head(ls)) THEN Normal(Tail(ls))
  ELSE IF Slashes(Head(ls)) >= 2 THEN <<TwoSlashes(Head(ls))>> \o Normal(Tail(ls))
  ELSE <<Head(ls)>> \o Normal(Tail(ls))

\* A source of the family of lines with many slashes.
ManySlashes == \E k \in 1..Len(lines) : Slashes(lines[k]) \notin {0, 2}

\* C19: a command line with more than two slashes is treated as the same
\* line with two: it has the same keyword and compiles to the same action
\* (in a script body and in a page), "///END" closes the script body,
\* "///PAGESSTART" and "///PAGESEND" open and close the pages block; a
\* line with a single slash is no command line, it is read and nothing
\* else happens. A script of such lines compiles to what the script with
\* two slashes in front of each command compiles to.
C19Slashes ==
  [][/\ \A k \in 1..Len(lines) :
          (Reading(k) /\ Slashes(lines[k]) >= 1) =>
            LET two == TwoSlashes(lines[k])
            IN  IF SingleSlash(lines[k])
                THEN /\ sourceStream'.pos = AfterLine(k)
                     /\ UNCHANGED <<pc, bundle, scriptName, script, pages, returned,
                                    thrown, assertFailed>>
                ELSE /\ two \in {LFadeIn, LDelay2} => (Kept /\ NewActions = Expected(two))
                     /\ (two = LEnd /\ pc = "parseScript") =>
                          /\ pc' = "loadScripts"
                          /\ thrown' = <<>>
                          /\ bundle' = Emplace(bundle, scriptName, script)
                     /\ (two = LPagesStart /\ pc = "parseScript") =>
                          /\ pc' = "parsePagesDefinition"
                          /\ thrown' = <<>>
                          /\ script' = script
                     /\ (two = LPagesEnd /\ pc = "parsePagesDefinition") =>
                          /\ pc' = "parseScript"
                          /\ thrown' = <<>>
                          /\ script' = Append(script, PagesDefinition(pages))
     /\ (ManySlashes /\ WellFormed(Normal(lines)) /\ Ended') =>
          /\ pc' = "returned"
          /\ returned' =
               <<LName_a[1] :> ExpectedScript(ScriptsOf(Normal(lines))[1].body)>>]_vars

\* "///FADEIN", "/DELAY 2" and "////END" have been loaded: the script is
\* FadeIn alone.
C19Witness ==
  /\ pc = "returned"
  /\ lines = <<LName_a, Slashed(3, <<"FADEIN">>), Slashed(1, <<"DELAY", " ", "2">>),
               Slashed(4, <<"END">>)>>
  /\ returned[1] = (LName_a[1] :> <<FadeIn>>)

-----------------------------------------------------------------------------
(* C20 *)

\* What is written on a TOGGS line.
Written(line) == CHOOSE t \in ToggsData : ToggsLine(t) = line

\* C20: TOGGS xPos count p1 ... compiles to SetupCheckBoxes with that
\* xPos and a list of exactly count definitions; definition i is the i-th
\* pair (yPos, id) written on the line, in the order of the line, a pair
\* that occurs twice being kept twice.
C20Toggs ==
  [][\A k \in 1..Len(lines) :
       (Reading(k) /\ lines[k] \in ToggsLines) =>
         LET t == Written(lines[k])
         IN  /\ Kept
             /\ Len(NewActions) = 1
             /\ NewActions[1].type = "SetupCheckBoxes"
             /\ NewActions[1].xPos = t.xPos
             /\ Len(NewActions[1].definitions) = t.count
             /\ \A i \in 1..t.count :
                  i <= Len(t.pairs) =>
                    NewActions[1].definitions[i] =
                      [yPos |-> t.pairs[i][1], id |-> t.pairs[i][2]]]_vars

\* TOGGS 5 3 9 2 3 1 3 1 has been compiled: three definitions, not sorted,
\* two of them the same.
C20Witness ==
  /\ pc = "parseScript"
  /\ script =
       <<FadeIn,
         [type |-> "SetupCheckBoxes", xPos |-> 5,
          definitions |-> <<[yPos |-> 9, id |-> 2], [yPos |-> 3, id |-> 1],
                            [yPos |-> 3, id |-> 1]>>]>>

-----------------------------------------------------------------------------
(* C21 *)

\* The actions of a script, those of the pages of its pages blocks
\* included.
ActionsOf(sc) ==
  {sc[i] : i \in 1..Len(sc)}
    \cup UNION {UNION {{pd.pages[p][i] : i \in 1..Len(pd.pages[p])} :
                         p \in 1..Len(pd.pages)} :
                  pd \in PagesDefinitions(sc)}

\* The ranges of the data model.
InRange(a) ==
  /\ a.type = "Delay" => a.amount > 0
  /\ a.type = "AnimateNewsReporter" => a.duration > 0
  /\ a.type = "ShowSaveSlots" => (a.slot >= 0 /\ a.slot < 8)
  /\ a.type = "DrawBigText" => (a.colorIndex >= 0 /\ a.colorIndex <= 15)
  /\ a.type = "ShowFullScreenImage" => a.imageName # ""
  /\ a.type = "SetPalette" => a.paletteFile # ""

\* C21: every action of every script of a bundle that loadScripts
\* returns, the actions of pages included, is in the ranges of the data
\* model: Delay.amount > 0, AnimateNewsReporter.duration > 0,
\* ShowSaveSlots.slot in [0, 8), DrawBigText.colorIndex in [0, 15],
\* ShowFullScreenImage.imageName and SetPalette.paletteFile not empty.
C21Ranges ==
  pc = "returned" =>
    \A n \in DOMAIN returned[1] : \A a \in ActionsOf(returned[1][n]) : InRange(a)

\* A bundle was returned with a big text of colour 15 on a page.
C21Witness ==
  /\ pc = "returned"
  /\ \E n \in DOMAIN returned[1] :
       \E pd \in PagesDefinitions(returned[1][n]) :
         \E i \in 1..Len(pd.pages[1]) :
           /\ pd.pages[1][i].type = "DrawBigText"
           /\ pd.pages[1][i].colorIndex = 15

-----------------------------------------------------------------------------
(* C22 *)

\* The calls of this process that have ended, the current one included:
\* the source of each and what it returned or threw.
EndedCalls ==
  calls \o (IF pc \in {"returned", "thrown"}
            THEN <<[source |-> scriptSource, returned |-> returned, thrown |-> thrown]>>
            ELSE <<>>)

\* C22: two calls of loadScripts on the same source, in one process,
\* return equal bundles or throw the same error, whatever sources were
\* loaded before or between them; a call starts from nothing a call
\* before it has left, the only thing that outlives a call being the
\* constant set notAllowedHere.
C22Deterministic ==
  /\ \A i, j \in 1..Len(EndedCalls) :
       EndedCalls[i].source = EndedCalls[j].source =>
         /\ EndedCalls[i].returned = EndedCalls[j].returned
         /\ EndedCalls[i].thrown = EndedCalls[j].thrown
  /\ statics \subseteq {"notAllowedHere"}
  /\ (pc = "loadScripts" /\ steps = 0) =>
       /\ bundle = <<>> /\ script = <<>> /\ pages = <<>> /\ messageLines = <<>>
       /\ sourceStream = NewStream /\ returned = <<>> /\ thrown = <<>>

\* The same source was loaded a first and a third time, with the same
\* bundle; between them another source had made notAllowedHere and
\* failed.
C22Witness ==
  /\ Len(EndedCalls) = 3
  /\ EndedCalls[1].source = EndedCalls[3].source
  /\ EndedCalls[1].returned # <<>>
  /\ DOMAIN EndedCalls[1].returned[1] = {LName_b[1]}
  /\ EndedCalls[2].thrown = <<"The command CWTEXT is not allowed in this context">>
  /\ statics = {"notAllowedHere"}

-----------------------------------------------------------------------------
(* C23 *)

\* What follows the n-th blank of s.
RECURSIVE AfterBlanks(_, _)
AfterBlanks(s, n) ==
  IF n = 0 \/ s = <<>> THEN s
  ELSE AfterBlanks(Tail(s), IF Head(s) = " " THEN n - 1 ELSE n)

\* The payload of an XYTEXT line: what follows "XYTEXT x y" and one
\* blank in the line without its outer white space, up to a carriage
\* return.
PayloadOf(line) ==
  LET rest == AfterBlanks(line, 3)
      kept == SubSeq(rest, 1, Last({i \in 1..Len(rest) : ~IsSpace(rest[i])}, 0))
  IN  SubSeq(kept, 1, First({i \in 1..Len(kept) : kept[i] = "\r"}, Len(kept) + 1) - 1)

HasBigTextMarker(payload) ==
  \E i \in 1..Len(payload) : payload[i] \in {"<F0>", "<F7>", "<FF>"}

\* C23: the variant of an XYTEXT line is chosen in a fixed order, and
\* every payload that is not empty has one: a byte >= 0xF0 anywhere makes
\* it a big text, also behind a first byte 0xEF; without such a byte a
\* first byte 0xEF makes it a sprite (or the load fails, never a text);
\* every other payload gives DrawText{x, y, payload}, the payload as it
\* is. An empty payload fails as corrupt and yields no action.
C23Variants ==
  [][\A k \in 1..Len(lines) :
       (Reading(k) /\ lines[k] \in XYTextLines \cup TextLines) =>
         LET payload == PayloadOf(lines[k])
         IN  IF payload = <<>> THEN Fails("Corrupt Duke Script file")
             ELSE IF HasBigTextMarker(payload)
             THEN /\ Kept
                  /\ Len(NewActions) = 1
                  /\ NewActions[1].type = "DrawBigText"
             ELSE IF payload[1] = "<EF>"
             THEN \/ /\ Kept
                     /\ Len(NewActions) = 1
                     /\ NewActions[1].type = "DrawSprite"
                  \/ /\ pc' \in {"thrown", "aborted"}
                     /\ script' = script
                     /\ pages' = pages
             ELSE /\ Kept
                  /\ NewActions = <<[type |-> "DrawText", x |-> 1, y |-> 2,
                                     text |-> Str(payload)]>>]_vars

\* "  Hi" has been compiled into a script as a text, blanks included.
C23Witness ==
  /\ pc = "parseScript"
  /\ script = <<FadeIn, [type |-> "DrawText", x |-> 1, y |-> 2, text |-> "  Hi"]>>

-----------------------------------------------------------------------------
(* C24 *)

\* The message box parser is about to read line k.
ReadingBox(k) ==
  /\ pc = "parseMessageBoxTextDefinition"
  /\ AtLine(k)

\* C24: a CWTEXT command appends its text up to a carriage return, with
\* the blanks behind it trimmed, when that text is not empty, and makes
\* the load fail otherwise; SKLINE appends ""; the lines are appended in
\* the order of the source, one per command, and the ShowMessageBox of
\* the block carries them. So "" in a ShowMessageBox comes from SKLINE
\* only.
C24AsClaimed ==
  [][/\ \A k \in 1..Len(lines) :
          /\ (ReadingBox(k) /\ lines[k] \in CwTextLines) =>
                IF MessageTexts[lines[k]] = ""
                THEN /\ pc' = "thrown"
                     /\ thrown' = <<"Corrupt Duke Script file">>
                ELSE /\ pc' = pc
                     /\ messageLines' = Append(messageLines, MessageTexts[lines[k]])
          /\ (ReadingBox(k) /\ lines[k] = LSkLine) =>
                /\ pc' = pc
                /\ messageLines' = Append(messageLines, "")
     /\ (pc = "parseMessageBoxTextDefinition" /\ pc' = "parseScript") =>
          /\ Len(script') = Len(script) + 1
          /\ script'[Len(script')].lines = messageLines]_vars

\* The same without the line whose text is blanks in front of a carriage
\* return.
C24ButBlankOnly ==
  [][/\ \A k \in 1..Len(lines) :
          /\ (ReadingBox(k) /\ lines[k] \in CwTextLines \ {LCwTextBlankOnly}) =>
                IF MessageTexts[lines[k]] = ""
                THEN /\ pc' = "thrown"
                     /\ thrown' = <<"Corrupt Duke Script file">>
                ELSE /\ pc' = pc
                     /\ messageLines' = Append(messageLines, MessageTexts[lines[k]])
          /\ (ReadingBox(k) /\ lines[k] = LSkLine) =>
                /\ pc' = pc
                /\ messageLines' = Append(messageLines, "")
     /\ (pc = "parseMessageBoxTextDefinition" /\ pc' = "parseScript") =>
          /\ Len(script') = Len(script) + 1
          /\ script'[Len(script')].lines = messageLines]_vars

\* A loaded message box whose empty line comes from a CWTEXT command: the
\* source has no SKLINE.
C24Witness ==
  /\ pc = "returned"
  /\ lines = <<LName_a, LCenterWindow, LCwText, LCwTextBlankOnly, LFadeOut, LEnd>>
  /\ returned[1][LName_a[1]][1].type = "ShowMessageBox"
  /\ returned[1][LName_a[1]][1].lines = <<"Hi", "">>

-----------------------------------------------------------------------------
(* C25 *)

\* The step leaves the pages parser where it is: the block and the script
\* stay open, nothing is compiled or stored, nothing is raised.
StaysInPages ==
  /\ pc' = pc
  /\ pages' = pages
  /\ script' = script
  /\ bundle' = bundle
  /\ thrown' = <<>>

\* The line is PAGESEND behind its slashes.
ClosesPages(line) ==
  SelectSeq(line, LAMBDA c : c \notin {"/", " ", "\t", "\r"}) = <<"PAGESEND">>

\* C25: when the input ends inside a PAGESSTART block, the load fails
\* with "Missing end marker 'PAGESEND' ..." and returns nothing; an END
\* line or the name line of a following script inside the block leaves
\* the block and the script open, and only a PAGESEND line closes the
\* block.
C25AsClaimed ==
  [][/\ (pc = "parsePagesDefinition" /\ sourceStream.pos > Len(scriptSource)) =>
          /\ pc' = "thrown"
          /\ thrown' = <<"Missing end marker 'PAGESEND' in Duke Script file">>
          /\ returned' = <<>>
     /\ \A k \in 1..Len(lines) :
          (pc = "parsePagesDefinition" /\ AtLine(k)) =>
            /\ lines[k] \in {LName_a, LName_b} => StaysInPages
            /\ lines[k] = LEnd => StaysInPages
            /\ pc' = "parseScript" => ClosesPages(lines[k])]_vars

\* The same, where the END line may also end in the abort of the
\* assertion on the keyword END.
C25ButAssert ==
  [][/\ (pc = "parsePagesDefinition" /\ sourceStream.pos > Len(scriptSource)) =>
          /\ pc' = "thrown"
          /\ thrown' = <<"Missing end marker 'PAGESEND' in Duke Script file">>
          /\ returned' = <<>>
     /\ \A k \in 1..Len(lines) :
          (pc = "parsePagesDefinition" /\ AtLine(k)) =>
            /\ lines[k] \in {LName_a, LName_b} => StaysInPages
            /\ lines[k] = LEnd => (StaysInPages \/ (pc' = "aborted" /\ assertFailed'))
            /\ pc' = "parseScript" => ClosesPages(lines[k])]_vars

\* A block with END and a script name in it, read to the end of the
\* input: the load has failed for the missing PAGESEND.
C25Witness ==
  /\ pc = "thrown"
  /\ thrown = <<"Missing end marker 'PAGESEND' in Duke Script file">>
  /\ lines = <<LName_a, LPagesStart, LFadeIn, LEnd, LName_a>>

-----------------------------------------------------------------------------
(* C26 *)

\* The line is END behind its slashes.
ClosesScript(line) ==
  SelectSeq(line, LAMBDA c : c \notin {"/", " ", "\t", "\r"}) = <<"END">>

\* C26: PAGESEND closes the pages block and nothing else: the step that
\* reads it appends one PagesDefinition with the pages of the block to the
\* script, which stays open; the command lines read after it are
\* compiled into the script, behind what is there, and what is there
\* stays as it is; the script is closed and stored by its own END line
\* only.
C26PagesEndClosesBlock ==
  [][/\ \A k \in 1..Len(lines) :
          /\ (pc = "parsePagesDefinition" /\ AtLine(k) /\ lines[k] = LPagesEnd) =>
                /\ pc' = "parseScript"
                /\ script' = Append(script, [type |-> "PagesDefinition", pages |-> pages])
                /\ bundle' = bundle
                /\ scriptName' = scriptName
                /\ sourceStream'.pos = AfterLine(k)
          /\ (pc = "parseScript" /\ AtLine(k) /\ lines[k] \in ActionLines) =>
                /\ pc' = pc
                /\ script' = script \o Expected(lines[k])
          /\ (pc = "parseScript" /\ AtLine(k) /\ pc' = "loadScripts") =>
                /\ ClosesScript(lines[k])
                /\ scriptName \in DOMAIN bundle'
                /\ scriptName \notin DOMAIN bundle => bundle'[scriptName] = script
     /\ (pc \in {"parseScript", "parsePagesDefinition", "parseMessageBoxTextDefinition"}
         /\ pc' \in {"parseScript", "parsePagesDefinition", "parseMessageBoxTextDefinition"}) =>
          /\ Len(script') >= Len(script)
          /\ SubSeq(script', 1, Len(script)) = script
          /\ bundle' = bundle]_vars

\* A script with actions in front of, inside and behind a pages block
\* has been loaded: the block is one action between the others.
C26Witness ==
  /\ pc = "returned"
  /\ lines = Outline
  /\ Len(returned[1][LName_a[1]]) = 4
  /\ returned[1][LName_a[1]][1] = FadeIn
  /\ returned[1][LName_a[1]][2] =
       [type |-> "PagesDefinition",
        pages |-> <<Expected(LDelay1), Expected(LFadeOut)>>]
  /\ returned[1][LName_a[1]][3].type = "ShowMessageBox"
  /\ returned[1][LName_a[1]][4] = FadeOut

-----------------------------------------------------------------------------
(* C27 *)

\* Nothing is left of the input to read.
InputEnded == sourceStream.pos > Len(scriptSource)

\* A source whose message box, opened in its second line, has no line
\* behind it but CWTEXT, SKLINE and ignored ones.
BoxToTheEnd == BoxShape /\ BoxEnd > Len(lines)

\* C27: when the input ends while the message box parser reads, the
\* parser returns the lines it has without an error (the ShowMessageBox
\* with them is appended to the script); the script parser then finds the
\* input ended and the load fails with "Missing end marker 'END' ..." and
\* returns no bundle. A source whose box runs to its end never returns a
\* bundle: it fails for the missing END, or before that for a CWTEXT
\* without text.
C27BoxToEndOfInput ==
  [][/\ (pc = "parseMessageBoxTextDefinition" /\ InputEnded) =>
          /\ pc' = "parseScript"
          /\ thrown' = <<>>
          /\ script' = Append(script, [type |-> "ShowMessageBox", yPos |-> box.y,
                                       width |-> box.width, height |-> box.height,
                                       lines |-> messageLines])
          /\ InputEnded'
     /\ (pc = "parseScript" /\ InputEnded) =>
          /\ pc' = "thrown"
          /\ thrown' = <<"Missing end marker 'END' in Duke Script file">>
          /\ returned' = <<>>
     /\ (BoxToTheEnd /\ pc' \notin {"loadScripts", "parseScript",
                                     "parseMessageBoxTextDefinition"}) =>
          /\ pc' = "thrown"
          /\ returned' = <<>>
          /\ \/ thrown' = <<"Missing end marker 'END' in Duke Script file">>
             \/ /\ thrown' = <<"Corrupt Duke Script file">>
                /\ \E i \in 3..Len(lines) : lines[i] \in {LCwTextCr, LCwTextNone}]_vars

\* The input ended behind CWTEXT Hi and SKLINE: the box with both lines
\* is in the script and the load has failed for the missing END.
C27Witness ==
  /\ pc = "thrown"
  /\ thrown = <<"Missing end marker 'END' in Duke Script file">>
  /\ returned = <<>>
  /\ lines = <<LName_a, LCenterWindow, LCwText, LSkLine>>
  /\ script = <<[type |-> "ShowMessageBox", yPos |-> 1, width |-> 3, height |-> 2,
                 lines |-> <<"Hi", "">>]>>

-----------------------------------------------------------------------------
(* C28 *)

\* The keywords of the script parser and of the message box parser.
OutsideOnly == {"MENU", "CENTERWINDOW", "CWTEXT", "SKLINE", "PAGESSTART"}

\* No action of a kind that a page cannot hold.
PlainPage(page) ==
  \A i \in 1..Len(page) :
    page[i].type \notin {"ShowMessageBox", "PagesDefinition",
                         "ConfigurePersistentMenuSelection"}

\* C28: in a pages block a command line with the keyword MENU,
\* CENTERWINDOW, CWTEXT, SKLINE or PAGESSTART makes the load fail with
\* "The command <keyword> is not allowed in this context" and compiles
\* nothing; no page, of the block being read or of a PagesDefinition of
\* any script, holds a ShowMessageBox, a PagesDefinition or a
\* ConfigurePersistentMenuSelection.
C28NotInPages ==
  [][/\ \A k \in 1..Len(lines) :
          (/\ pc = "parsePagesDefinition"
           /\ AtLine(k)
           /\ Len(lines[k]) >= 3
           /\ lines[k][1] = "/"
           /\ lines[k][2] = "/"
           /\ lines[k][3] \in OutsideOnly) =>
            Fails("The command " \o lines[k][3] \o " is not allowed in this context")
     /\ \A i \in 1..Len(pages') : PlainPage(pages'[i])
     /\ \A sc \in CompiledScripts' :
          \A d \in PagesDefinitions(sc) :
            \A i \in 1..Len(d.pages) : PlainPage(d.pages[i])]_vars

\* MENU 2 in the second page of a block has been refused.
C28Witness ==
  /\ pc = "thrown"
  /\ thrown = <<"The command MENU is not allowed in this context">>
  /\ lines = <<LName_a, LPagesStart, LAPage, LFadeIn, LMenu, LFadeOut, LPagesEnd, LEnd>>
  /\ pages = <<<<>>, <<FadeIn>>>>

-----------------------------------------------------------------------------
(* C29 *)

\* A payload of the sprite variant: 0xEF in front and no byte >= 0xF0.
IsSpritePayload(payload) ==
  /\ payload # <<>>
  /\ payload[1] = "<EF>"
  /\ ~HasBigTextMarker(payload)

\* C29: the sprite variant reads the payload's positions 1-3 (actor id)
\* and 4-5 (frame), so a payload of fewer than 6 bytes fails as corrupt
\* and compiles nothing; a longer one is read inside its bounds: the step
\* yields a DrawSprite or the error of the number conversion, and never
\* the outcome of a read behind the end of the payload.
C29AsClaimed ==
  [][\A k \in 1..Len(lines) :
       (Reading(k) /\ lines[k] \in XYTextLines \cup TextLines) =>
         LET payload == PayloadOf(lines[k])
         IN  (IsSpritePayload(payload)) =>
               IF Size(payload) < 6 THEN Fails("Corrupt Duke Script file")
               ELSE /\ pc' # "aborted"
                    /\ \/ Fails("stoi")
                       \/ /\ Kept
                          /\ Len(NewActions) = 1
                          /\ NewActions[1].type = "DrawSprite"]_vars

\* The same without the payloads of exactly 5 bytes.
C29ButFiveBytes ==
  [][\A k \in 1..Len(lines) :
       (Reading(k) /\ lines[k] \in XYTextLines \cup TextLines) =>
         LET payload == PayloadOf(lines[k])
         IN  (IsSpritePayload(payload) /\ Size(payload) # 5) =>
               IF Size(payload) < 6 THEN Fails("Corrupt Duke Script file")
               ELSE /\ pc' # "aborted"
                    /\ \/ Fails("stoi")
                       \/ /\ Kept
                          /\ Len(NewActions) = 1
                          /\ NewActions[1].type = "DrawSprite"]_vars

\* The 5 bytes 0xEF 1 2 3 4 have passed the length check and were
\* compiled with a frame read up to the end of the payload.
C29Witness ==
  /\ pc = "parseScript"
  /\ script = <<[type |-> "FadeIn"],
                [type |-> "DrawSprite", x |-> 3, y |-> 3, actorId |-> 123, frame |-> 4]>>

-----------------------------------------------------------------------------
(* C30 *)

\* The read position is in line t.
Within(t) ==
  /\ t \in 1..Len(lines)
  /\ StartOf(t) <= sourceStream.pos
  /\ sourceStream.pos < AfterLine(t)

\* The line opens a message box or gives it a line.
OfBox(line) ==
  \E i \in 1..Len(line) : line[i] \in {"CENTERWINDOW", "CWTEXT", "SKLINE"}

\* The last line in front of line t that opens a message box or gives it
\* a line.
LastOfBox(t) == Last({j \in 1..(t - 1) : OfBox(lines[j])}, 0)

\* The step in which the message box parser has read the command that
\* ends its block.
Rewinds ==
  /\ pc = "parseMessageBoxTextDefinition"
  /\ pc' = "parseScript"
  /\ ~InputEnded

\* C30: within a call the read position never moves back, except in the
\* step that ends a message box block at a command; the position is then
\* set behind the end of the last CWTEXT or SKLINE line of the block (of
\* the CENTERWINDOW line if it has none) and not behind the start of the
\* command that ends the block, so that the script parser reads this
\* command next, behind ignored lines if there are any.
C30ForwardButOneRewind ==
  [][/\ (pc \notin {"returned", "thrown"} /\ ~Rewinds) =>
          sourceStream'.pos >= sourceStream.pos
     /\ Rewinds =>
          \E t \in 1..Len(lines) :
            /\ Within(t)
            /\ LastOfBox(t) > 0
            /\ sourceStream'.pos >= AfterLine(LastOfBox(t))
            /\ sourceStream'.pos <= CommandStart(t)
            /\ \A j \in (LastOfBox(t) + 1)..(t - 1) : lines[j] \in IgnoredLines \cup {LBlank}
            /\ ~sourceStream'.fail]_vars

\* The block of Outline with commentary behind its last text line has
\* ended: the position is back behind the SKLINE line, in front of the
\* commentary, and the box is in the script.
C30Witness ==
  /\ pc = "parseScript"
  /\ Len(lines) = 13
  /\ lines[10] = LSkLine
  /\ lines[11] \in Commentary
  /\ lines[12] = LFadeOut
  /\ sourceStream.pos = StartOf(11)
  /\ Len(script) = 3
  /\ script[3].type = "ShowMessageBox"

-----------------------------------------------------------------------------
(* C31 *)

NoDefinition == [yPos |-> 0, id |-> 0]

\* TOGGS lines with a count that is missing or below 0, with half a pair,
\* with a letter in the place of a number: the xPos and the definitions
\* they stand for.
ToggsShort ==
  (CmdArgs("TOGGS", <<N5, NMinus1, N3, N1>>) :> [xPos |-> 5, definitions |-> <<>>])
  @@ (CmdArgs("TOGGS", <<N5>>) :> [xPos |-> 5, definitions |-> <<>>])
  @@ (CmdArgs("TOGGS", <<>>) :> [xPos |-> 0, definitions |-> <<>>])
  @@ (CmdArgs("TOGGS", <<N5, N2, N9>>) :>
        [xPos |-> 5, definitions |-> <<[yPos |-> 9, id |-> 0], NoDefinition>>])
  @@ (CmdArgs("TOGGS", <<N5, N2, <<"x">>, N1>>) :>
        [xPos |-> 5, definitions |-> <<NoDefinition, NoDefinition>>])
  @@ (CmdArgs("TOGGS", <<<<"x">>, N2, N3, N1>>) :> [xPos |-> 0, definitions |-> <<>>])

\* C31: a number that is missing or no number is read as 0 and raises
\* nothing by itself. DELAY and BABBLEON without a number fail with their
\* "Invalid ... command" error; GETNAMES, Z and MENU without a number
\* compile with slot 0, yPos 0 and slot 0; TOGGS has exactly count
\* definitions, those whose pair is not on the line being (0, 0), and
\* none when the count is missing or not above 0.
C31MissingNumberIsZero ==
  [][\A k \in 1..Len(lines) :
       /\ (Reading(k) /\ lines[k] \in Unnumbered("DELAY")) =>
             Fails("Invalid DELAY command in Duke Script file")
       /\ (Reading(k) /\ lines[k] \in Unnumbered("BABBLEON")) =>
             Fails("Invalid BABBLEON command in Duke Script file")
       /\ (Reading(k) /\ lines[k] \in Unnumbered("GETNAMES")) =>
             /\ Kept
             /\ NewActions = <<[type |-> "ShowSaveSlots", slot |-> 0]>>
       /\ (Reading(k) /\ lines[k] \in Unnumbered("Z")) =>
             /\ Kept
             /\ NewActions = <<[type |-> "ShowMenuSelectionIndicator", yPos |-> 0]>>
       /\ (pc = "parseScript" /\ AtLine(k) /\ lines[k] \in Unnumbered("MENU")) =>
             /\ Kept
             /\ NewActions = <<[type |-> "ConfigurePersistentMenuSelection", slot |-> 0],
                               [type |-> "ScheduleFadeInBeforeNextWaitState"]>>
       /\ (Reading(k) /\ lines[k] \in ToggsLines) =>
             LET t == Written(lines[k])
             IN  /\ Kept
                 /\ Len(NewActions) = 1
                 /\ NewActions[1].type = "SetupCheckBoxes"
                 /\ Len(NewActions[1].definitions) = t.count
                 /\ \A i \in (Len(t.pairs) + 1)..t.count :
                      NewActions[1].definitions[i] = NoDefinition
       /\ (Reading(k) /\ lines[k] \in DOMAIN ToggsShort) =>
             /\ Kept
             /\ NewActions = <<[type |-> "SetupCheckBoxes",
                                xPos |-> ToggsShort[lines[k]].xPos,
                                definitions |-> ToggsShort[lines[k]].definitions]>>]_vars

\* TOGGS 5 2 9 has been compiled: two definitions, of which the line
\* has half of the first.
C31Witness ==
  /\ pc = "parseScript"
  /\ script = <<FadeIn, [type |-> "SetupCheckBoxes", xPos |-> 5,
                         definitions |-> <<[yPos |-> 9, id |-> 0], NoDefinition>>]>>

=============================================================================
